---- MODULE Spec2Model ----
(***************************************************************************)
(* OR-SIM backend: the state store (backend/data/state_manager.py), the    *)
(* two name resolvers (StateManager._resolve_name and                      *)
(* backend/llm/output_parser.py:_fuzzy_match_machine) and the persisted    *)
(* snapshot file.                                                          *)
(*                                                                         *)
(* Strings are sequences of one-character strings over a small alphabet    *)
(* with letter case and a whitespace character, so that lower(), strip()   *)
(* and the substring test `x in y` are computed, not assumed.              *)
(***************************************************************************)
EXTENDS Integers, Sequences, FiniteSets, TLC

\* ------------------------------------------------------------------ bounds
MaxNameLen == 3      \* longest input name given to the resolvers
MaxOps     == 2      \* operations started on the store, all threads together
NumChunks  == 2      \* write() calls one payload is split into
QueueSize  == 2      \* llm_queue_size: capacity of the pipeline's queue
MaxPush    == 3      \* utterances handed to _on_transcription
MaxCalls   == 2      \* calls of ORPipeline.start / stop
NumObservers  == 3   \* WebSocket connections
MaxBroadcasts == 2   \* broadcasts, possibly in progress together
SilenceFrames == 2
MinSpeechFrames == 4
MaxSpeechFrames == 5
PreRollFrames == 2
MaxFrames == 10
MaxBlocks == 2
NumRequests == 4
MaxPipelines == 3
MaxLongFrames == 40
MaxTextLen == 5
MaxItems == 2
MaxChanges == 2

\* ---------------------------------------------------------------- strings
Chars == {"a", "b", "c", "A", "B", " "}

\* str.lower() on one character
LowerChar(c) == CASE c = "A" -> "a" [] c = "B" -> "b" [] OTHER -> c

\* str.lower()
Lower(s) == [i \in 1..Len(s) |-> LowerChar(s[i])]

\* the whitespace characters of the alphabet (str.strip, regex \s, JSON)
Whitespace == {" ", "\n"}

RECURSIVE LStrip(_)
LStrip(s) == IF s = <<>> THEN s
             ELSE IF Head(s) \in Whitespace THEN LStrip(Tail(s)) ELSE s

RECURSIVE RStrip(_)
RStrip(s) == IF s = <<>> THEN s
             ELSE IF s[Len(s)] \in Whitespace THEN RStrip(SubSeq(s, 1, Len(s) - 1)) ELSE s

\* str.strip()
Strip(s) == RStrip(LStrip(s))

\* Python `x in y` for strings: x occurs in y as a contiguous substring
\* (the empty string occurs in every string).
IsSubstr(x, y) == \E i \in 0..(Len(y) - Len(x)) : SubSeq(y, i + 1, i + Len(x)) = x

\* all strings of length at most n
StringsUpTo(n) == UNION {[1..k -> Chars] : k \in 0..n}

\* Optional[str]: None is a value no string is equal to
None == <<"None">>

\* Python truthiness of an Optional[str] (`if matched:`)
Truthy(x) == x /= None /\ x /= <<>>

\* --------------------------------------------------------------- catalogs
\* backend/data/surgeries.py: MACHINES[surgery] is an ordered dict
\* index -> {"name", "description", "aliases"}.  The model keeps the order
\* of the entries, the names and the aliases.
SurgeryType == {"SA", "SB", "SC", "SD"}

\* SA: a short alias of the first machine ("b") occurs inside the name and
\*     the alias of the second one (like "pump" / "Perfusion Pump" /
\*     "cardioplegia pump" in the heart-transplant catalog).
\* SB: the same alias is declared for two machines (like "bipolar cautery"
\*     in the thyroidectomy catalog).
\* SC: no key occurs inside another machine's key; an alias not contained
\*     in any name ("cc", "cB").
\* SD: an alias of the second machine equals, ignoring case, the name of
\*     the first one.
MACHINES ==
  [s \in SurgeryType |->
     CASE s = "SA" -> << [name |-> <<"A","b">>, aliases |-> << <<"b">> >>],
                         [name |-> <<"B","c">>, aliases |-> << <<"c","b">> >>] >>
       [] s = "SB" -> << [name |-> <<"A","a">>, aliases |-> << <<"c">> >>],
                         [name |-> <<"B","a">>, aliases |-> << <<"c">>, <<"b","b">> >>] >>
       [] s = "SC" -> << [name |-> <<"A","a">>, aliases |-> << <<"c","c">> >>],
                         [name |-> <<"B","b">>, aliases |-> << <<"c","B">> >>],
                         [name |-> <<"A"," ","c">>, aliases |-> << >>] >>
       [] s = "SD" -> << [name |-> <<"A","b">>, aliases |-> << >>],
                         [name |-> <<"B","a">>, aliases |-> << <<"a","b">> >>] >> ]

\* get_machine_names(surgery): the names in catalog order
get_machine_names(s) == [i \in 1..Len(MACHINES[s]) |-> MACHINES[s][i].name]

\* the elements of a sequence
Range(q) == {q[i] : i \in 1..Len(q)}

RECURSIVE Flatten(_)
Flatten(qq) == IF qq = <<>> THEN <<>> ELSE Head(qq) \o Flatten(Tail(qq))

\* The assignments `alias_map[key] = canonical` of _build_alias_map, in the
\* order the loops make them: per machine, its lowercased name, then each
\* lowercased alias.
AliasAssignments(s) ==
  Flatten([i \in 1..Len(MACHINES[s]) |->
             LET m == MACHINES[s][i] IN
               << <<Lower(m.name), m.name>> >> \o
               [j \in 1..Len(m.aliases) |-> <<Lower(m.aliases[j]), m.name>>]])

\* A Python dict built by assignments: a key keeps the position of its
\* first assignment and the value of its last one.  alias_map_keys is the
\* iteration order of the dict, alias_map_get its lookup.
RECURSIVE DedupFirst(_)
DedupFirst(q) ==
  IF q = <<>> THEN <<>>
  ELSE LET r == DedupFirst(SubSeq(q, 1, Len(q) - 1))
           x == q[Len(q)]
       IN IF x \in Range(r) THEN r ELSE Append(r, x)

alias_map_keys(s) ==
  LET a == AliasAssignments(s) IN DedupFirst([i \in 1..Len(a) |-> a[i][1]])

alias_map_get(s, k) ==
  LET a == AliasAssignments(s)
      last == CHOOSE i \in 1..Len(a) :
                /\ a[i][1] = k
                /\ \A j \in (i + 1)..Len(a) : a[j][1] /= k
  IN a[last][2]

\* the index of the first TRUE in a sequence of tests (the iteration at
\* which a `for ... if ...: return` loop returns), or 0
FirstIndex(q) ==
  IF \E i \in 1..Len(q) : q[i]
  THEN CHOOSE i \in 1..Len(q) : q[i] /\ \A j \in 1..(i - 1) : ~q[j]
  ELSE 0

\* -------------------------------------------------------------- resolvers
\* _resolve_name returning the normalised input where the canonical name
\* is meant
_resolve_name_lower(s, name) ==
  LET keys       == DedupFirst(get_machine_names(s))
      name_lower == Strip(Lower(name))
      Eq(c)      == Lower(c) = name_lower
      Part(c)    == IsSubstr(name_lower, Lower(c))
      i2         == FirstIndex([i \in 1..Len(keys) |-> Eq(keys[i])])
      i3         == FirstIndex([i \in 1..Len(keys) |-> Part(keys[i])])
  IN IF name \in Range(keys) THEN name
     ELSE IF i2 /= 0 THEN name_lower
     ELSE IF i3 /= 0 THEN keys[i3]
     ELSE None

\* StateManager._resolve_name(name) for the store of surgery s.  The keys
\* of self._machines are the catalog's names in catalog order.
_resolve_name(s, name) ==
  LET keys       == DedupFirst(get_machine_names(s))
      name_lower == Strip(Lower(name))
      Eq(c)      == Lower(c) = name_lower
      Part(c)    == IsSubstr(name_lower, Lower(c))
      i2         == FirstIndex([i \in 1..Len(keys) |-> Eq(keys[i])])
      i3         == FirstIndex([i \in 1..Len(keys) |-> Part(keys[i])])
  IN IF name \in Range(keys) THEN name          \* 1. exact
     ELSE IF i2 /= 0 THEN keys[i2]              \* 2. case-insensitive
     ELSE IF i3 /= 0 THEN keys[i3]              \* 3. partial
     ELSE None

\* _fuzzy_match_machine(name, get_machine_names(s), _build_alias_map(s))
_fuzzy_match_machine(s, name) ==
  LET canonical_names == get_machine_names(s)
      akeys      == alias_map_keys(s)
      name_lower == Strip(Lower(name))
      InName(k)  == IsSubstr(k, name_lower)
      Both(c)    == IsSubstr(name_lower, Lower(c)) \/ IsSubstr(Lower(c), name_lower)
      i2         == FirstIndex([i \in 1..Len(akeys) |-> InName(akeys[i])])
      i3         == FirstIndex([i \in 1..Len(canonical_names) |-> Both(canonical_names[i])])
  IN IF name_lower \in Range(akeys) THEN alias_map_get(s, name_lower)   \* 1.
     ELSE IF i2 /= 0 THEN alias_map_get(s, akeys[i2])                   \* 2.
     ELSE IF i3 /= 0 THEN canonical_names[i3]                           \* 3.
     ELSE None


\* ------------------------------------------------------------------ state
Threads == {1, 2}                 \* threads that call into the stores
Insts   == {1, 2}                 \* StateManager objects (2: a later session)
Subs    == {"s1", "s2"}           \* subscriber callbacks
Inodes  == 1..(2 + Cardinality(Threads))

VARIABLES
  surgery,             \* [Insts -> SurgeryType \cup {"-"}]   self.surgery ("-": not constructed)
  machines,            \* [Insts -> [name -> BOOLEAN]]        self._machines[name].is_on
  last_transcription,  \* [Insts -> token]                    self._last_transcription
  last_reasoning,      \* [Insts -> token]                    self._last_reasoning
  lock,                \* [Insts -> Threads \cup {0}]         self._lock (0: free)
  callbacks,           \* [Insts -> Seq(Subs)]                self._callbacks
  clock,               \* datetime.now(): one tick per snapshot built
  frame,               \* [Threads -> activation record of the call in progress]
  done,                \* [Threads -> the thread's last completed call and how it ended]
  nops,                \* calls started so far
  inode,               \* [Inodes -> sequence of chunks]      file contents
  path,                \* [{"tmp","file"} -> Inodes \cup {0}] directory entries (0: absent)
  write_failed,        \* some _write_json has logged "Failed to write state JSON"
  in_surgery, in_name, \* inputs of the resolvers
  out_store, out_fuzzy,\* results of _resolve_name / _fuzzy_match_machine ("-": not yet run)
  raw_form,            \* how the text handed to parse_llm_output is made up
  raw_text,            \* the text handed to parse_llm_output
  parse_out,           \* what parse_llm_output did with it
  extract_out,           \* what _extract_first_json_object returned for it
  queue,               \* self._queue: the pending utterances, oldest first
  stop_event,          \* self._stop
  worker,              \* [Threads -> the thread running _llm_worker, if any]
  producer,            \* the audio thread inside _on_transcription
  caller,              \* the thread calling start() and stop()
  hist,                \* what has happened to the utterances so far
  clients,             \* ConnectionManager._clients
  conn,                \* [Observers -> where each WebSocket stands]
  bcast,               \* [Broadcasts -> the activation of each broadcast()]
  received,            \* [Observers -> the snapshots sent to it, in the order sent]
  seg,                 \* the fields of one AudioCapture
  feed,                \* the RMS of the frames still to come (Free: any)
  seg_hist,            \* the frames fed, the speech bursts, the emissions so far
  to_push,             \* the lengths of the blocks still to be given to push_block
  audio_queue,         \* self._audio_queue as push_block fills it
  pushed,              \* the lengths of the blocks given to push_block so far
  app_pipeline,        \* app.state.pipeline: the recorded session (0: None)
  pipelines,           \* [Pipelines -> what has been done with each ORPipeline]
  reqs,                \* [Reqs -> the HTTP request handled in each slot]
  orp,                  \* one ORPipeline while change_surgery runs beside its worker
  link                 \* the store behind /ws/state and the connects in progress

storeVars == <<surgery, machines, last_transcription, last_reasoning, lock,
               callbacks, clock, frame, done, nops>>
fsVars    == <<inode, path, write_failed>>
resVars   == <<in_surgery, in_name, out_store, out_fuzzy>>
parseVars == <<raw_form, raw_text, parse_out, extract_out>>
pipeVars  == <<queue, stop_event, worker, producer, caller, hist>>
wsVars    == <<clients, conn, bcast, received>>
segVars   == <<seg, feed, seg_hist>>
pbVars    == <<to_push, audio_queue, pushed>>
sessVars  == <<app_pipeline, pipelines, reqs>>
lateVars  == <<orp, link>>
moreVars  == <<segVars, pbVars, sessVars, lateVars>>
auxVars   == <<parseVars, pipeVars, wsVars, moreVars>>
vars      == <<storeVars, fsVars, resVars, auxVars>>

\* ------------------------------------------------------------- snapshots
MachineStates(off, on) == [k \in {"0", "1"} |-> IF k = "0" THEN off ELSE on]

NoSnapshot == [surgery |-> "-", timestamp |-> 0, transcription |-> "",
               reasoning |-> "", machine_states |-> MachineStates(<<>>, <<>>)]

\* the keys of self._machines, in dict order (__init__, lines 61-67)
MachineKeys(s) == DedupFirst(get_machine_names(s))

\* _build_snapshot: the two list comprehensions
off_machines(s, m) == SelectSeq(MachineKeys(s), LAMBDA n : ~m[n])

on_machines_all(s, m) == MachineKeys(s)
on_machines(s, m) == SelectSeq(MachineKeys(s), LAMBDA n : m[n])

_build_snapshot(s, m, tr, re, now) ==
  [surgery |-> s, timestamp |-> now, transcription |-> tr, reasoning |-> re,
   machine_states |-> MachineStates(off_machines(s, m), on_machines(s, m))]

\* ---------------------------------------------------------------- requests
\* StateUpdateRequest(turn_on, turn_off, transcription, reasoning)
nA  == <<"a">>
nB  == <<"b">>
nC  == <<"c">>
nCC == <<"c", "c">>
nSp == <<" ">>
nE  == <<>>

Req(on, off, tr) == [turn_on |-> on, turn_off |-> off, transcription |-> tr,
                     reasoning |-> "r"]

NoReq == Req(<<>>, <<>>, "")

Requests == { Req(<<nA, nC>>, <<>>, "t1"),        \* two entities on
              Req(<<nB>>, <<nB>>, "t2"),          \* the same entity in both lists
              Req(<<nCC>>, <<nCC>>, "t3"),        \* a name of no entity
              Req(<<nSp>>, <<>>, "t4"),           \* whitespace only
              Req(<<>>, <<nA, nE>>, "t5") }       \* off, with an empty name

\* ------------------------------------------------------------ apply_update
\* one iteration of `for name in req.turn_on` (lines 94-102)
turn_on_toggle(s, m, name) ==
  LET matched == _resolve_name(s, name)
  IN IF Truthy(matched) THEN [m EXCEPT ![matched] = ~@] ELSE m
turn_on_one(s, m, name) ==
  LET matched == _resolve_name(s, name)
  IN IF Truthy(matched)
     THEN IF ~m[matched] THEN [m EXCEPT ![matched] = TRUE] ELSE m
     ELSE m

\* one iteration of `for name in req.turn_off` (lines 104-112)
turn_off_one(s, m, name) ==
  LET matched == _resolve_name(s, name)
  IN IF Truthy(matched)
     THEN IF m[matched] THEN [m EXCEPT ![matched] = FALSE] ELSE m
     ELSE m

\* The statements of apply_update under the lock, in program order: the
\* turn_on loop, the turn_off loop, then the snapshot.
PhaseOrderOffFirst == <<"au_off", "au_on", "au_build">>
PhaseOrder == <<"au_on", "au_off", "au_build">>

PhaseEmpty(ph, req) == \/ ph = "au_on"  /\ req.turn_on = <<>>
                       \/ ph = "au_off" /\ req.turn_off = <<>>

\* the first phase at position k or later that has something to do
RECURSIVE PhaseFrom(_, _)
PhaseFrom(k, req) ==
  IF PhaseEmpty(PhaseOrder[k], req) THEN PhaseFrom(k + 1, req) ELSE PhaseOrder[k]

PhaseAfter(ph, req) ==
  PhaseFrom(1 + CHOOSE k \in 1..Len(PhaseOrder) : PhaseOrder[k] = ph, req)

\* `with self._lock:` is entered only when the lock is free
LockIgnored(l) == TRUE
LockFree(l) == l = 0

\* ------------------------------------------------------------ activations
IdleFrame == [pc |-> "idle", op |-> "-", self |-> 0, req |-> NoReq, idx |-> 0,
              snapshot |-> NoSnapshot, pre |-> <<>>, calls |-> <<>>,
              fd |-> 0, pos |-> 0]

NoCall == [op |-> "-", outcome |-> "-"]

\* Threads are interchangeable: thread t makes its first call only after
\* every thread before it has made one.
MayCall(t) == \A u \in Threads : u < t => (frame[u].pc /= "idle" \/ done[u] /= NoCall)

Constructed(i) == surgery[i] /= "-"

Enter(t, i, op, req, pc) ==
  /\ frame[t].pc = "idle"
  /\ MayCall(t)
  /\ nops < MaxOps
  /\ Constructed(i)
  /\ frame' = [frame EXCEPT ![t] = [IdleFrame EXCEPT !.pc = pc, !.op = op,
                                                      !.self = i, !.req = req]]
  /\ nops' = nops + 1

\* a thread calls apply_update(req) on store i
CallApplyUpdate(t, i, req) ==
  /\ Enter(t, i, "apply_update", req, "au_lock")
  /\ UNCHANGED <<surgery, machines, last_transcription, last_reasoning, lock,
                 callbacks, clock, done, fsVars, resVars, auxVars>>

\* a thread calls get_snapshot() on store i
CallGetSnapshot(t, i) ==
  /\ Enter(t, i, "get_snapshot", NoReq, "gs_lock")
  /\ UNCHANGED <<surgery, machines, last_transcription, last_reasoning, lock,
                 callbacks, clock, done, fsVars, resVars, auxVars>>

\* a thread calls reset() on store i
CallReset(t, i) ==
  /\ Enter(t, i, "reset", NoReq, "rs_lock")
  /\ UNCHANGED <<surgery, machines, last_transcription, last_reasoning, lock,
                 callbacks, clock, done, fsVars, resVars, auxVars>>

\* register_callback(cb): an append, without the lock
RegisterCallback(t, i, cb) ==
  /\ frame[t].pc = "idle"
  /\ MayCall(t)
  /\ nops < MaxOps
  /\ Constructed(i)
  /\ nops' = nops + 1
  /\ callbacks' = [callbacks EXCEPT ![i] = Append(@, cb)]
  /\ UNCHANGED <<surgery, machines, last_transcription, last_reasoning, lock,
                 clock, frame, done, fsVars, resVars, auxVars>>

\* apply_update: `with self._lock:` entered
AU_Acquire(t) ==
  LET f == frame[t] IN
  /\ f.pc = "au_lock"
  /\ LockFree(lock[f.self])
  /\ lock' = [lock EXCEPT ![f.self] = t]
  /\ frame' = [frame EXCEPT ![t].pc = PhaseFrom(1, f.req), ![t].idx = 1,
                            ![t].pre = machines[f.self]]
  /\ UNCHANGED <<surgery, machines, last_transcription, last_reasoning,
                 callbacks, clock, done, nops, fsVars, resVars, auxVars>>

\* apply_update: one iteration of the turn_on loop
AU_TurnOn(t) ==
  LET f == frame[t] IN
  /\ f.pc = "au_on"
  /\ machines' = [machines EXCEPT ![f.self] =
                    turn_on_one(surgery[f.self], @, f.req.turn_on[f.idx])]
  /\ frame' = IF f.idx < Len(f.req.turn_on)
              THEN [frame EXCEPT ![t].idx = f.idx + 1]
              ELSE [frame EXCEPT ![t].pc = PhaseAfter("au_on", f.req), ![t].idx = 1]
  /\ UNCHANGED <<surgery, last_transcription, last_reasoning, lock, callbacks,
                 clock, done, nops, fsVars, resVars, auxVars>>

\* apply_update: one iteration of the turn_off loop
AU_TurnOff(t) ==
  LET f == frame[t] IN
  /\ f.pc = "au_off"
  /\ machines' = [machines EXCEPT ![f.self] =
                    turn_off_one(surgery[f.self], @, f.req.turn_off[f.idx])]
  /\ frame' = IF f.idx < Len(f.req.turn_off)
              THEN [frame EXCEPT ![t].idx = f.idx + 1]
              ELSE [frame EXCEPT ![t].pc = PhaseAfter("au_off", f.req), ![t].idx = 1]
  /\ UNCHANGED <<surgery, last_transcription, last_reasoning, lock, callbacks,
                 clock, done, nops, fsVars, resVars, auxVars>>

\* apply_update: record the command, build the snapshot (lines 114-117)
AU_Build(t) ==
  LET f == frame[t] IN
  /\ f.pc = "au_build"
  /\ last_transcription' = [last_transcription EXCEPT ![f.self] = f.req.transcription]
  /\ last_reasoning' = [last_reasoning EXCEPT ![f.self] = f.req.reasoning]
  /\ clock' = clock + 1
  /\ frame' = [frame EXCEPT ![t].pc = "wj_open",
                 ![t].snapshot = _build_snapshot(surgery[f.self], machines[f.self],
                                   f.req.transcription, f.req.reasoning, clock')]
  /\ UNCHANGED <<surgery, machines, lock, callbacks, done, nops, fsVars, resVars, auxVars>>


\* ------------------------------------------------------------- _write_json
\* The payload json.dumps(snapshot) reaches the file in NumChunks writes.
Chunk(snap, k) == [snap |-> snap, k |-> k]
Hole == Chunk(NoSnapshot, 0)
Payload(snap) == [k \in 1..NumChunks |-> Chunk(snap, k)]

\* a file holds a complete snapshot: all the chunks of one payload, in order
IsComplete(content) ==
  /\ Len(content) = NumChunks
  /\ \A k \in 1..NumChunks : content[k] = Chunk(content[1].snap, k)

\* write one chunk at offset pos (counted in chunks) of a file
WriteAt(content, pos, c) ==
  [j \in 1..(IF Len(content) > pos THEN Len(content) ELSE pos + 1) |->
     IF j = pos + 1 THEN c ELSE IF j <= Len(content) THEN content[j] ELSE Hole]

\* an inode lives while a directory entry or an open descriptor refers to it
Referenced(n, p, fr) == n \in {p.tmp, p.file} \cup {fr[u].fd : u \in Threads}

Sweep(ic, p, fr) == [n \in Inodes |-> IF Referenced(n, p, fr) THEN ic[n] ELSE <<>>]

FreshInode == CHOOSE n \in Inodes :
                /\ ~Referenced(n, path, frame)
                /\ \A k \in Inodes : k < n => Referenced(k, path, frame)

\* what follows _build_snapshot in each operation: apply_update, reset and
\* __init__ go on to _write_json, get_snapshot returns
after_build_write(op) == "wj_open"
after_build(op) == IF op = "get_snapshot" THEN "unlock" ELSE "wj_open"

\* what follows _write_json: the end of the `with` block, or of __init__
after_write(op) == IF op = "init" THEN "ret" ELSE "unlock"

\* _STATE_TMP.write_text: open(tmp, "w") creates the file or truncates it
WJ_Open(t) ==
  LET f == frame[t]
      n == IF path.tmp /= 0 THEN path.tmp ELSE FreshInode
  IN
  /\ f.pc = "wj_open"
  /\ inode' = [inode EXCEPT ![n] = <<>>]
  /\ path' = [path EXCEPT !.tmp = n]
  /\ frame' = [frame EXCEPT ![t].pc = "wj_write", ![t].fd = n, ![t].pos = 0]
  /\ UNCHANGED <<surgery, machines, last_transcription, last_reasoning, lock,
                 callbacks, clock, done, nops, write_failed, resVars, auxVars>>

\* _STATE_TMP.write_text: one write(); the file is closed after the last
WJ_Write(t) ==
  LET f == frame[t]
      last == f.pos + 1 = NumChunks
      fr == IF last
            THEN [frame EXCEPT ![t].pc = "wj_replace", ![t].fd = 0, ![t].pos = 0]
            ELSE [frame EXCEPT ![t].pos = f.pos + 1]
  IN
  /\ f.pc = "wj_write"
  /\ frame' = fr
  /\ inode' = Sweep([inode EXCEPT ![f.fd] = WriteAt(@, f.pos, Chunk(f.snapshot, f.pos + 1))],
                    path, fr)
  /\ UNCHANGED <<surgery, machines, last_transcription, last_reasoning, lock,
                 callbacks, clock, done, nops, write_failed, path, resVars, auxVars>>

\* os.replace(_STATE_TMP, _STATE_FILE); FileNotFoundError when tmp is gone
WJ_Replace(t) ==
  LET f == frame[t]
      fr == [frame EXCEPT ![t].pc = after_write(f.op)]
      p  == IF path.tmp = 0 THEN path ELSE [tmp |-> 0, file |-> path.tmp]
  IN
  /\ f.pc = "wj_replace"
  /\ frame' = fr
  /\ path' = p
  /\ inode' = Sweep(inode, p, fr)
  /\ UNCHANGED <<surgery, machines, last_transcription, last_reasoning, lock,
                 callbacks, clock, done, nops, resVars, auxVars>>
  /\ write_failed' = (write_failed \/ path.tmp = 0)

\* `except Exception` of _write_json: open, write or replace raised (disk
\* full, permission); the descriptor is closed, the error logged
WJ_Error(t) ==
  LET f == frame[t]
      fr == [frame EXCEPT ![t].pc = after_write(f.op), ![t].fd = 0, ![t].pos = 0]
  IN
  /\ f.pc \in {"wj_open", "wj_write", "wj_replace"}
  /\ frame' = fr
  /\ inode' = Sweep(inode, path, fr)
  /\ UNCHANGED <<surgery, machines, last_transcription, last_reasoning, lock,
                 callbacks, clock, done, nops, path, resVars, auxVars>>
  /\ write_failed' = TRUE

\* what follows the `with` block: apply_update goes through its callbacks,
\* reset and get_snapshot return the snapshot
after_unlock_notify(op) == IF op = "get_snapshot" THEN "ret" ELSE "au_cb"
after_unlock(op) == IF op = "apply_update" THEN "au_cb" ELSE "ret"

\* the end of `with self._lock:` in apply_update, reset and get_snapshot
Release(t) ==
  LET f == frame[t] IN
  /\ f.pc = "unlock"
  /\ lock' = [lock EXCEPT ![f.self] = 0]
  /\ frame' = [frame EXCEPT ![t].pc = after_unlock(f.op),
                            ![t].idx = 1]
  /\ UNCHANGED <<surgery, machines, last_transcription, last_reasoning,
                 callbacks, clock, done, nops, fsVars, resVars, auxVars>>

\* ---------------------------------------------------------------- callbacks
\* `try: cb(snapshot) except Exception: logger.error(...)`: the loop goes on
\* whether or not the callback raised
callback_propagates(raised) == IF raised THEN "propagate" ELSE "continue"
callback_result(raised) == "continue"

Completed(f, outcome) == [op |-> f.op, outcome |-> outcome]

\* apply_update: one iteration of `for cb in self._callbacks`
AU_Callback(t, raised) ==
  LET f == frame[t]
      call == [cb |-> callbacks[f.self][f.idx], snapshot |-> f.snapshot,
               locked |-> lock[f.self] = t, raised |-> raised]
      g == [f EXCEPT !.calls = Append(@, call), !.idx = f.idx + 1]
  IN
  /\ f.pc = "au_cb"
  /\ f.idx <= Len(callbacks[f.self])
  /\ IF callback_result(raised) = "continue"
     THEN /\ frame' = [frame EXCEPT ![t] = g]
          /\ done' = done
     ELSE /\ frame' = [frame EXCEPT ![t] = IdleFrame]
          /\ done' = [done EXCEPT ![t] = Completed(g, "raised")]
  /\ UNCHANGED <<surgery, machines, last_transcription, last_reasoning, lock,
                 callbacks, clock, nops, fsVars, resVars, auxVars>>

\* `return snapshot` of apply_update (after the callback loop), reset,
\* get_snapshot; the end of __init__
Return(t) ==
  LET f == frame[t] IN
  /\ \/ f.pc = "ret"
     \/ f.pc = "au_cb" /\ f.idx > Len(callbacks[f.self])
  /\ done' = [done EXCEPT ![t] = Completed(f, "returned")]
  /\ frame' = [frame EXCEPT ![t] = IdleFrame]
  /\ UNCHANGED <<surgery, machines, last_transcription, last_reasoning, lock,
                 callbacks, clock, nops, fsVars, resVars, auxVars>>

\* ------------------------------------------------- get_snapshot, reset, init
\* get_snapshot: the lock taken and the snapshot built
GS_Acquire(t) ==
  LET f == frame[t] IN
  /\ f.pc = "gs_lock"
  /\ LockFree(lock[f.self])
  /\ lock' = [lock EXCEPT ![f.self] = t]
  /\ clock' = clock + 1
  /\ frame' = [frame EXCEPT ![t].pc = after_build(f.op), ![t].pre = machines[f.self],
                 ![t].snapshot = _build_snapshot(surgery[f.self], machines[f.self],
                                   last_transcription[f.self], last_reasoning[f.self],
                                   clock')]
  /\ UNCHANGED <<surgery, machines, last_transcription, last_reasoning,
                 callbacks, done, nops, fsVars, resVars, auxVars>>

AllOff(s) == [n \in Range(MachineKeys(s)) |-> FALSE]

\* reset: the lock taken, every machine off, the texts cleared, the
\* snapshot built (lines 136-141)
RS_Acquire(t) ==
  LET f == frame[t]
      s == surgery[f.self]
  IN
  /\ f.pc = "rs_lock"
  /\ LockFree(lock[f.self])
  /\ lock' = [lock EXCEPT ![f.self] = t]
  /\ machines' = [machines EXCEPT ![f.self] = [n \in DOMAIN @ |-> FALSE]]
  /\ last_transcription' = [last_transcription EXCEPT ![f.self] = ""]
  /\ last_reasoning' = [last_reasoning EXCEPT ![f.self] = ""]
  /\ clock' = clock + 1
  /\ frame' = [frame EXCEPT ![t].pc = after_build(f.op), ![t].pre = machines[f.self],
                 ![t].snapshot = _build_snapshot(s, machines'[f.self], "", "", clock')]
  /\ UNCHANGED <<surgery, callbacks, done, nops, fsVars, resVars, auxVars>>

\* StateManager(s) constructed by thread t as store i (as change_surgery and
\* a session restart do while an earlier store is still in use): all
\* machines off, then _write_json() without any lock
Construct(t, i, s) ==
  /\ frame[t].pc = "idle"
  /\ MayCall(t)
  /\ nops < MaxOps
  /\ ~Constructed(i)
  /\ \A j \in Insts : j < i => Constructed(j)
  /\ nops' = nops + 1
  /\ surgery' = [surgery EXCEPT ![i] = s]
  /\ machines' = [machines EXCEPT ![i] = AllOff(s)]
  /\ last_transcription' = [last_transcription EXCEPT ![i] = ""]
  /\ last_reasoning' = [last_reasoning EXCEPT ![i] = ""]
  /\ callbacks' = [callbacks EXCEPT ![i] = <<>>]
  /\ clock' = clock + 1
  /\ frame' = [frame EXCEPT ![t] =
                 [IdleFrame EXCEPT !.pc = after_build("init"), !.op = "init", !.self = i,
                    !.snapshot = _build_snapshot(s, AllOff(s), "", "", clock')]]
  /\ UNCHANGED <<lock, done, fsVars, resVars, auxVars>>


\* -------------------------------------------------------------- resolvers
NotRun == <<"-">>

\* both resolvers applied to the same catalog and input name
Resolve ==
  /\ out_store = NotRun
  /\ out_store' = _resolve_name(in_surgery, in_name)
  /\ out_fuzzy' = _fuzzy_match_machine(in_surgery, in_name)
  /\ UNCHANGED <<in_surgery, in_name, storeVars, fsVars, auxVars>>

\* ------------------------------------------------------------ json.loads
\* Texts are sequences of characters.  A JSON value is a record: t its
\* type, s the characters of a string, a number or an object key, items the
\* elements of an array or the members (t = "member", s the key, items the
\* one value) of an object, in the order of the text.
JV(t, s, items) == [t |-> t, s |-> s, items |-> items]

JNull == JV("null", <<>>, <<>>)
EmptyDict == JV("obj", <<>>, <<>>)
EmptyList == JV("arr", <<>>, <<>>)
JStr(s) == JV("str", s, <<>>)

Digits == {"0", "1", "2"}

\* the character at position i, "" past the end of the text
At(txt, i) == IF i >= 1 /\ i <= Len(txt) THEN txt[i] ELSE ""

StartsWithAt(txt, i, w) ==
  i + Len(w) - 1 <= Len(txt) /\ SubSeq(txt, i, i + Len(w) - 1) = w

RECURSIVE SkipWs(_, _)
SkipWs(txt, i) == IF At(txt, i) \in Whitespace THEN SkipWs(txt, i + 1) ELSE i

\* the result of a parsing step: the value and the position after it
Ok(v, i) == [ok |-> TRUE, v |-> v, i |-> i]
Fail == [ok |-> FALSE, v |-> JNull, i |-> 0]

\* the least of a non-empty set of positions
Least(S) == CHOOSE k \in S : \A h \in S : k <= h

\* the first position from i on whose character is in cs, 0 when none
NextChar(txt, i, cs) ==
  IF \E k \in i..Len(txt) : txt[k] \in cs
  THEN Least({k \in i..Len(txt) : txt[k] \in cs}) ELSE 0

\* the first position from i on where the word w stands, 0 when none
NextWord(txt, i, w) ==
  IF \E k \in i..Len(txt) : StartsWithAt(txt, k, w)
  THEN Least({k \in i..Len(txt) : StartsWithAt(txt, k, w)}) ELSE 0

\* a string, from the character after its opening quote: ends at the next
\* unescaped double quote; a raw control character or an unknown escape is
\* an error.  k is the next quote, backslash or newline from i on.
RECURSIVE ScanString(_, _, _)
ScanStringAt(txt, i, acc, k) ==
  IF k = 0 \/ txt[k] = "\n" THEN Fail
  ELSE IF txt[k] = "\"" THEN Ok(JStr(acc \o SubSeq(txt, i, k - 1)), k + 1)
  ELSE IF At(txt, k + 1) \in {"\"", "\\", "/"}
       THEN ScanString(txt, k + 2, acc \o SubSeq(txt, i, k - 1) \o <<At(txt, k + 1)>>)
  ELSE IF At(txt, k + 1) = "n"
       THEN ScanString(txt, k + 2, acc \o SubSeq(txt, i, k - 1) \o <<"\n">>)
  ELSE Fail

ScanString(txt, i, acc) == ScanStringAt(txt, i, acc, NextChar(txt, i, {"\"", "\\", "\n"}))

RECURSIVE ScanDigits(_, _)
ScanDigits(txt, i) == IF At(txt, i) \in Digits THEN ScanDigits(txt, i + 1) ELSE i

L_null  == <<"n", "u", "l", "l">>
L_true  == <<"t", "r", "u", "e">>
L_false == <<"f", "a", "l", "s", "e">>

RECURSIVE ParseValue(_, _)
RECURSIVE ParseElems(_, _, _)
RECURSIVE ParseMembers(_, _, _)

\* one JSON value starting at position i
ParseValue(txt, i) ==
  LET c == At(txt, i) IN
  IF c = "\"" THEN ScanString(txt, i + 1, <<>>)
  ELSE IF c = "["
       THEN LET j == SkipWs(txt, i + 1) IN
            IF At(txt, j) = "]" THEN Ok(EmptyList, j + 1) ELSE ParseElems(txt, j, <<>>)
  ELSE IF c = "{"
       THEN LET j == SkipWs(txt, i + 1) IN
            IF At(txt, j) = "}" THEN Ok(EmptyDict, j + 1) ELSE ParseMembers(txt, j, <<>>)
  ELSE IF c = "0" THEN Ok(JV("num", <<"0">>, <<>>), i + 1)
  ELSE IF c \in Digits
       THEN LET j == ScanDigits(txt, i) IN Ok(JV("num", SubSeq(txt, i, j - 1), <<>>), j)
  ELSE IF StartsWithAt(txt, i, L_null)  THEN Ok(JNull, i + 4)
  ELSE IF StartsWithAt(txt, i, L_true)  THEN Ok(JV("true", <<>>, <<>>), i + 4)
  ELSE IF StartsWithAt(txt, i, L_false) THEN Ok(JV("false", <<>>, <<>>), i + 5)
  ELSE Fail

\* the elements of an array, from the first character of an element
ParseElems(txt, i, acc) ==
  LET r == ParseValue(txt, i) IN
  IF ~r.ok THEN Fail
  ELSE LET j == SkipWs(txt, r.i)
           acc2 == Append(acc, r.v)
       IN IF At(txt, j) = "]" THEN Ok(JV("arr", <<>>, acc2), j + 1)
          ELSE IF At(txt, j) = "," THEN ParseElems(txt, SkipWs(txt, j + 1), acc2)
          ELSE Fail

\* the members of an object, from the opening quote of a key
ParseMembers(txt, i, acc) ==
  IF At(txt, i) /= "\"" THEN Fail
  ELSE LET k == ScanString(txt, i + 1, <<>>) IN
       IF ~k.ok THEN Fail
       ELSE LET j == SkipWs(txt, k.i) IN
            IF At(txt, j) /= ":" THEN Fail
            ELSE LET r == ParseValue(txt, SkipWs(txt, j + 1)) IN
                 IF ~r.ok THEN Fail
                 ELSE LET m == SkipWs(txt, r.i)
                          acc2 == Append(acc, JV("member", k.v.s, <<r.v>>))
                      IN IF At(txt, m) = "}" THEN Ok(JV("obj", <<>>, acc2), m + 1)
                         ELSE IF At(txt, m) = ","
                              THEN ParseMembers(txt, SkipWs(txt, m + 1), acc2)
                         ELSE Fail

\* json.loads(text): one value with whitespace around it and nothing else;
\* ok = FALSE stands for json.JSONDecodeError
WholeText(txt, r) == IF r.ok /\ SkipWs(txt, r.i) = Len(txt) + 1 THEN r ELSE Fail

json_loads(txt) == WholeText(txt, ParseValue(txt, SkipWs(txt, 1)))

\* dict.get(key, default): the value of the last member with that key
dict_get(d, key, default) ==
  LET hits == {k \in 1..Len(d.items) : d.items[k].s = key} IN
  IF hits = {} THEN default
  ELSE d.items[CHOOSE k \in hits : \A h \in hits : h <= k].items[1]

\* ------------------------------------------------------------ output_parser
\* the backquote character (a TLA+ string cannot hold it: written ~)
Backquote == "~"
Fence == <<Backquote, Backquote, Backquote>>
L_json == <<"j", "s", "o", "n">>

\* re.sub: every fence, with the tag json when it follows and the
\* whitespace after it, is removed.  k is the next fence from i on.
RECURSIVE SubFence(_, _)
SubFenceAt(txt, i, k) ==
  IF k = 0 THEN SubSeq(txt, i, Len(txt))
  ELSE SubSeq(txt, i, k - 1) \o
       SubFence(txt, SkipWs(txt, IF StartsWithAt(txt, k + 3, L_json) THEN k + 7 ELSE k + 3))

SubFence(txt, i) == SubFenceAt(txt, i, NextWord(txt, i, Fence))

\* text.replace: every fence is removed
RECURSIVE ReplaceFence(_, _)
ReplaceFenceAt(txt, i, k) ==
  IF k = 0 THEN SubSeq(txt, i, Len(txt))
  ELSE SubSeq(txt, i, k - 1) \o ReplaceFence(txt, k + 3)

ReplaceFence(txt, i) == ReplaceFenceAt(txt, i, NextWord(txt, i, Fence))

_strip_code_fence(text) == Strip(ReplaceFence(SubFence(text, 1), 1))

\* a comma with only whitespace between it and a closing bracket or brace
TrailingCommaAt(txt, k) ==
  txt[k] = "," /\ At(txt, SkipWs(txt, k + 1)) \in {"]", "}"}

NextTrailingComma(txt, i) ==
  IF \E k \in i..Len(txt) : TrailingCommaAt(txt, k)
  THEN Least({k \in i..Len(txt) : TrailingCommaAt(txt, k)}) ELSE 0

\* re.sub: a comma, with the whitespace after it, is removed when a closing
\* bracket or brace follows.  k is the next such comma from i on.
RECURSIVE SubTrailingComma(_, _)
SubTrailingCommaAt(txt, i, k) ==
  IF k = 0 THEN SubSeq(txt, i, Len(txt))
  ELSE SubSeq(txt, i, k - 1) \o SubTrailingComma(txt, SkipWs(txt, k + 1))

SubTrailingComma(txt, i) == SubTrailingCommaAt(txt, i, NextTrailingComma(txt, i))

_fix_trailing_commas(text) == SubTrailingComma(text, 1)

\* re.sub: every single quote not preceded by a backslash becomes a double
\* quote
_fix_single_quotes(text) ==
  [i \in 1..Len(text) |->
     IF text[i] = "'" /\ At(text, i - 1) /= "\\" THEN "\"" ELSE text[i]]

\* the loop of _extract_first_json_object from index i (start = 0: None);
\* k is the next brace from i on, the other characters change nothing
RECURSIVE ExtractFrom(_, _, _, _)
ExtractAt(txt, k, depth, start) ==
  IF k = 0 THEN None
  ELSE IF txt[k] = "{"
       THEN ExtractFrom(txt, k + 1, depth + 1, IF depth = 0 THEN k ELSE start)
  ELSE IF depth - 1 = 0 /\ start /= 0 THEN SubSeq(txt, start, k)
  ELSE ExtractFrom(txt, k + 1, depth - 1, start)

ExtractFrom(txt, i, depth, start) == ExtractAt(txt, NextChar(txt, i, {"{", "}"}), depth, start)

_extract_first_json_object(text) == ExtractFrom(text, 1, 0, 0)

\* the candidates _try_parse hands to json.loads, in order
candidates_raw_only(text) == <<text>>
candidates(text) ==
  LET extracted == _extract_first_json_object(text) IN
  << text,
     _strip_code_fence(text),
     _fix_trailing_commas(text),
     _fix_trailing_commas(_strip_code_fence(text)) >> \o
  (IF Truthy(extracted)
   THEN << extracted, _fix_trailing_commas(extracted) >>
   ELSE << >>)

\* _try_parse: what json.loads returns for the first candidate it accepts
\* (any JSON value, null -- Python's None -- included), or None
RECURSIVE TryCandidates(_, _)
ReturnOrContinue(r, c, i) == IF r.ok THEN r.v ELSE TryCandidates(c, i + 1)

\* `for candidate in candidates: try: return json.loads(candidate)`
TryCandidates(c, i) ==
  IF i > Len(c) THEN JNull ELSE ReturnOrContinue(json_loads(c[i]), c, i)

_try_parse(text) == TryCandidates(candidates(text), 1)

\* repr(str): single quotes, unless the string has a single quote and no
\* double quote
ReprStr(s) ==
  LET q == IF "'" \in Range(s) /\ "\"" \notin Range(s) THEN "\"" ELSE "'"
      Esc(c) == IF c = "\\" THEN <<"\\", "\\">>
                ELSE IF c = "\n" THEN <<"\\", "n">>
                ELSE IF c = q THEN <<"\\", c>>
                ELSE <<c>>
  IN <<q>> \o Flatten([i \in 1..Len(s) |-> Esc(s[i])]) \o <<q>>

\* ", ".join(parts)
RECURSIVE Join(_)
Join(parts) ==
  IF parts = <<>> THEN <<>>
  ELSE IF Len(parts) = 1 THEN parts[1]
  ELSE parts[1] \o <<",", " ">> \o Join(Tail(parts))

\* repr() of a value json.loads returned
RECURSIVE PyRepr(_)
PyRepr(v) ==
  CASE v.t = "str"   -> ReprStr(v.s)
    [] v.t = "num"   -> v.s
    [] v.t = "null"  -> <<"N", "o", "n", "e">>
    [] v.t = "true"  -> <<"T", "r", "u", "e">>
    [] v.t = "false" -> <<"F", "a", "l", "s", "e">>
    [] v.t = "arr"   -> <<"[">> \o Join([i \in 1..Len(v.items) |-> PyRepr(v.items[i])])
                        \o <<"]">>
    [] v.t = "obj"   ->
         LET keys == DedupFirst([i \in 1..Len(v.items) |-> v.items[i].s])
         IN <<"{">> \o
            Join([i \in 1..Len(keys) |->
                    ReprStr(keys[i]) \o <<":", " ">> \o PyRepr(dict_get(v, keys[i], JNull))])
            \o <<"}">>

\* str(value)
PyStr(v) == IF v.t = "str" THEN v.s ELSE PyRepr(v)

\* what a call of the parser did: returned an LLMOutput, or raised
NoStates == MachineStates(<<>>, <<>>)

Raised(exc) == [outcome |-> exc, reasoning |-> <<>>, machine_states |-> NoStates]

\* LLMOutput(reasoning, machine_states) after validate_machine_states:
\* every name stripped, the empty ones left out
LLMOutput(reasoning, off, on) ==
  LET Clean(q) == SelectSeq([i \in 1..Len(q) |-> Strip(q[i])], LAMBDA n : n /= <<>>)
  IN [outcome |-> "returned", reasoning |-> reasoning,
      machine_states |-> MachineStates(Clean(off), Clean(on))]

\* reasoning="Parse failed - no state change applied."
ParseFailedNote == <<"Parse failed - no state change applied.">>

\* _normalise_machine_names: name.lower() raises AttributeError for an
\* element that is not a string
AppendMatched(result, matched) ==
  IF Truthy(matched) /\ matched \notin Range(result) THEN Append(result, matched) ELSE result

RECURSIVE _normalise_machine_names(_, _, _)
_normalise_machine_names(s, machine_list, result) ==
  IF machine_list = <<>> THEN [raised |-> FALSE, names |-> result]
  ELSE LET name == Head(machine_list) IN
       IF name.t /= "str" THEN [raised |-> TRUE, names |-> result]
       ELSE _normalise_machine_names(s, Tail(machine_list),
               AppendMatched(result, _fuzzy_match_machine(s, name.s)))

K_machine_states == <<"m","a","c","h","i","n","e","_","s","t","a","t","e","s">>
K_reasoning      == <<"r","e","a","s","o","n","i","n","g">>

\* `if not isinstance(x, dict): x = {}` and the same for lists
DictOrEmpty(v) == IF v.t = "obj" THEN v ELSE EmptyDict
ListOrEmpty(v) == IF v.t = "arr" THEN v ELSE EmptyList

\* parse_llm_output, the end: the LLMOutput of the normalised lists
Result(turn_off, turn_on, reasoning) ==
  IF turn_off.raised \/ turn_on.raised THEN Raised("AttributeError")
  ELSE LLMOutput(reasoning, turn_off.names, turn_on.names)

\* parse_llm_output, from machine_states_raw on: turn_off is normalised
\* before turn_on
Normalised(parsed, machine_states_raw, s) ==
  Result(_normalise_machine_names(s,
            ListOrEmpty(dict_get(machine_states_raw, <<"0">>, EmptyList)).items, <<>>),
         _normalise_machine_names(s,
            ListOrEmpty(dict_get(machine_states_raw, <<"1">>, EmptyList)).items, <<>>),
         Strip(PyStr(dict_get(parsed, K_reasoning, JStr(<<>>)))))

\* parse_llm_output, after _try_parse
FromParsed(parsed, s) ==
  IF parsed.t = "null" THEN LLMOutput(ParseFailedNote, <<>>, <<>>)
  ELSE IF parsed.t /= "obj" THEN Raised("AttributeError")      \* parsed.get
  ELSE Normalised(parsed, DictOrEmpty(dict_get(parsed, K_machine_states, EmptyDict)), s)

\* parse_llm_output(raw_text, surgery)
parse_llm_output(raw, s) == FromParsed(_try_parse(raw), s)

\* ------------------------------------------------------- texts to parse
DQ == "\""
SQ == "'"

QStr(q, s) == <<q>> \o s \o <<q>>

\* a list of names, quoted with q, with or without a trailing comma
ListText(q, names, comma) ==
  <<"[">> \o Join([i \in 1..Len(names) |-> QStr(q, names[i])])
  \o (IF comma /\ names /= <<>> THEN <<",">> ELSE <<>>) \o <<"]">>

\* {"reasoning": "a", "machine_states": {"0": [...], "1": [...]}}
IntentText(q, on, off, comma) ==
  <<"{">> \o QStr(q, K_reasoning) \o <<":", " ">> \o QStr(q, <<"a">>) \o <<",", " ">>
  \o QStr(q, K_machine_states) \o <<":", " ", "{">>
  \o QStr(q, <<"0">>) \o <<":", " ">> \o ListText(q, off, comma) \o <<",", " ">>
  \o QStr(q, <<"1">>) \o <<":", " ">> \o ListText(q, on, comma)
  \o <<"}", "}">>

Prose == <<"a", " ", "b", ":", "\n">>

Wraps == {"plain", "prose", "fence", "fence_json", "fence_js",
          "prose_fence", "prose_fence_json"}

Fenced(w) == w \in {"fence", "fence_json", "fence_js", "prose_fence", "prose_fence_json"}

\* the object as the model writes it out: bare, after a sentence, in a
\* fenced block with or without a language tag
Wrap(w, body) ==
  LET tag == IF w \in {"fence_json", "prose_fence_json"} THEN L_json
             ELSE IF w = "fence_js" THEN <<"j", "s">> ELSE <<>>
      pre == IF w \in {"prose", "prose_fence", "prose_fence_json"} THEN Prose ELSE <<>>
  IN IF Fenced(w)
     THEN pre \o Fence \o tag \o <<"\n">> \o body \o <<"\n">> \o Fence
     ELSE pre \o body

\* the names the on- and off-lists are made of: aliases, an id, an id in
\* another letter case, a name of no entity
ListNames == {<<"b">>, <<"c", "b">>, <<"c">>, <<"A", "b">>, <<"c", "B">>, <<"c", "c", "c">>}
OnLists  == {<<>>} \cup {<<n>> : n \in ListNames} \cup {<< <<"b">>, <<"c", "b">> >>}
OffLists == {<<>>, << <<"c", "b">> >>}

IntentForms ==
  [kind : {"intent"}, wrap : Wraps, quote : {DQ, SQ}, comma : BOOLEAN,
   on : OnLists, off : OffLists]

\* texts that are not an intent object
OtherTexts ==
  [ empty     |-> <<>>,
    prose     |-> <<"a", " ", "b">>,
    array     |-> <<"[", "]">>,
    names     |-> ListText(DQ, << <<"b">> >>, FALSE),
    number    |-> <<"1", "2">>,
    string    |-> QStr(DQ, <<"b">>),
    null      |-> L_null,
    true      |-> L_true,
    open      |-> <<"{">>,
    nested    |-> <<"[", "[", "{", "]">>,
    object    |-> <<"{", "}">>,
    in_array  |-> <<"[">> \o IntentText(DQ, << <<"b">> >>, <<>>, FALSE) \o <<"]">>,
    ms_list   |-> <<"{">> \o QStr(DQ, K_machine_states) \o <<":", "[", "]", "}">>,
    on_string |-> <<"{">> \o QStr(DQ, K_machine_states) \o <<":", "{">>
                  \o QStr(DQ, <<"1">>) \o <<":">> \o QStr(DQ, <<"b">>) \o <<"}", "}">>,
    on_number |-> <<"{">> \o QStr(DQ, K_machine_states) \o <<":", "{">>
                  \o QStr(DQ, <<"1">>) \o <<":", "[", "1", "]", "}", "}">>,
    on_nested |-> <<"{">> \o QStr(DQ, K_machine_states) \o <<":", "{">>
                  \o QStr(DQ, <<"1">>) \o <<":", "[", "[">> \o QStr(DQ, <<"b">>)
                  \o <<"]", "]", "}", "}">>,
    on_mixed  |-> <<"{">> \o QStr(DQ, K_machine_states) \o <<":", "{">>
                  \o QStr(DQ, <<"1">>) \o <<":", "[">> \o QStr(DQ, <<"b">>)
                  \o <<",", "1", "]", "}", "}">>,
    re_number |-> <<"{">> \o QStr(DQ, K_reasoning) \o <<":", "1", "}">>,
    re_list   |-> <<"{">> \o QStr(DQ, K_reasoning) \o <<":">>
                  \o ListText(DQ, << <<"b">>, <<"c">> >>, FALSE) \o <<"}">>,
    stray     |-> <<"}">> \o IntentText(DQ, << <<"b">> >>, <<>>, FALSE),
    brace_in_prose |-> <<"{", "a", "}", " ">> \o IntentText(DQ, << <<"b">> >>, <<>>, FALSE) ]

OtherForms ==
  {[kind |-> k, wrap |-> "plain", quote |-> DQ, comma |-> FALSE, on |-> <<>>, off |-> <<>>] :
     k \in DOMAIN OtherTexts}

TextOf(form) ==
  IF form.kind = "intent"
  THEN Wrap(form.wrap, IntentText(form.quote, form.on, form.off, form.comma))
  ELSE OtherTexts[form.kind]

\* ------------------------------------------------------------- the parser
NotParsed == Raised("-")

NotExtracted == <<"-">>

\* _extract_first_json_object applied to the text
Extract ==
  /\ extract_out = NotExtracted
  /\ extract_out' = _extract_first_json_object(raw_text)
  /\ UNCHANGED <<raw_form, raw_text, parse_out, storeVars, fsVars, resVars, pipeVars, wsVars, moreVars>>

\* parse_llm_output applied to the text
Parse ==
  /\ parse_out = NotParsed
  /\ parse_out' = parse_llm_output(raw_text, in_surgery)
  /\ UNCHANGED <<raw_form, raw_text, extract_out, storeVars, fsVars, resVars, pipeVars, wsVars, moreVars>>

NoParse ==
  /\ raw_form = [kind |-> "-", wrap |-> "plain", quote |-> DQ, comma |-> FALSE,
                 on |-> <<>>, off |-> <<>>]
  /\ raw_text = <<>>
  /\ parse_out = NotParsed
  /\ extract_out = NotExtracted


\* ---------------------------------------------------------------- pipeline
\* backend/pipeline/pipeline.py: ORPipeline.  Utterance k is the k-th
\* (text, timestamp) handed to _on_transcription.
UtteranceText == <<"u1", "u2", "u3", "u4", "u5">>
Text(k) == UtteranceText[k]

\* queue.Queue(maxsize): put_nowait raises Full at capacity
FullNever(q) == FALSE
Full(q) == Len(q) >= QueueSize

\* queue.Queue.get / get_nowait: the oldest item leaves the queue
queue_get_newest(q) == [item |-> q[Len(q)], rest |-> SubSeq(q, 1, Len(q) - 1)]
queue_get(q) == [item |-> Head(q), rest |-> Tail(q)]

\* threading.Thread.start(): RuntimeError when the thread was started before
may_start_again(state) == TRUE
may_start(state) == state = "new"

\* `while not (self._stop.is_set() and self._queue.empty())`: the loop ends
\* when the flag is set and the queue empty
loop_ends_on_stop(stopped, q) == stopped
loop_ends(stopped, q) == stopped /\ q = <<>>

\* `except Exception` around the body of the loop: the error is logged and
\* the worker goes on to task_done(); an error not caught ends the thread
after_error_exit == "exit"
after_error == "task_done"

NoWorker == [state |-> "new", pc |-> "-", item |-> 0]

\* what llm.infer does with an utterance: it raises, or returns an
\* LLMOutput naming canonical machines
InferResults ==
  { [raised |-> TRUE,  on |-> <<>>, off |-> <<>>],
    [raised |-> FALSE, on |-> << <<"A", "b">> >>, off |-> <<>>],
    [raised |-> FALSE, on |-> << <<"B", "c">> >>, off |-> << <<"A", "b">> >>] }

\* the pushes whose _on_transcription call has returned or raised
Returned == {k \in 1..hist.pushed : ~(producer.pc /= "idle" /\ producer.item = k)}

\* _on_transcription: put_nowait((text, timestamp))
P_Put ==
  LET k == hist.pushed + 1 IN
  /\ producer.pc = "idle"
  /\ hist.pushed < MaxPush
  /\ IF Full(queue)
     THEN /\ producer' = [pc |-> "full", item |-> k]
          /\ queue' = queue
     ELSE /\ producer' = producer
          /\ queue' = Append(queue, k)
  /\ hist' = [hist EXCEPT !.pushed = k]
  /\ UNCHANGED <<stop_event, worker, caller, storeVars, fsVars, resVars, parseVars, wsVars, moreVars>>

\* _on_transcription, `except queue.Full`: get_nowait() drops the oldest
\* item; `except queue.Empty: pass` when the queue has been emptied meanwhile
P_DropOldest ==
  /\ producer.pc = "full"
  /\ IF queue /= <<>>
     THEN /\ queue' = queue_get(queue).rest
          /\ hist' = [hist EXCEPT !.dropped = @ \cup {queue_get(queue).item}]
          /\ producer' = [producer EXCEPT !.pc = "put_again"]
     ELSE /\ queue' = queue
          /\ hist' = [hist EXCEPT !.lost = @ \cup {producer.item}]
          /\ producer' = [pc |-> "idle", item |-> 0]
  /\ UNCHANGED <<stop_event, worker, caller, storeVars, fsVars, resVars, parseVars, wsVars, moreVars>>

\* _on_transcription: the second put_nowait, inside the handler of Full
P_PutAgain ==
  /\ producer.pc = "put_again"
  /\ IF Full(queue)
     THEN /\ queue' = queue
          /\ hist' = [hist EXCEPT !.raised = @ \cup {producer.item}]
     ELSE /\ queue' = Append(queue, producer.item)
          /\ hist' = hist
  /\ producer' = [pc |-> "idle", item |-> 0]
  /\ UNCHANGED <<stop_event, worker, caller, storeVars, fsVars, resVars, parseVars, wsVars, moreVars>>

\* the worker threads started so far
Started == {w \in Threads : worker[w].state /= "new"}

\* start(): self._worker.start(), then self.transcriber.start()
M_Start ==
  LET w == Cardinality(Started) + 1 IN
  /\ caller.pc = "idle"
  /\ caller.calls < MaxCalls
  /\ hist' = [hist EXCEPT !.starts = @ + 1]
  /\ caller' = [caller EXCEPT !.calls = @ + 1]
  /\ IF w \in Threads /\ \A u \in Started : may_start(worker[u].state)
     THEN worker' = [worker EXCEPT ![w] = [state |-> "alive", pc |-> "check", item |-> 0]]
     ELSE worker' = worker                      \* RuntimeError
  /\ UNCHANGED <<queue, stop_event, producer, storeVars, fsVars, resVars, parseVars, wsVars, moreVars>>

\* stop(): self.transcriber.stop(), then self._stop.set()
M_Stop ==
  /\ caller.pc = "idle"
  /\ caller.calls < MaxCalls
  /\ caller' = [pc |-> "join", calls |-> caller.calls + 1]
  /\ stop_event' = TRUE
  /\ hist' = IF stop_event THEN hist ELSE [hist EXCEPT !.at_stop = Range(queue)]
  /\ UNCHANGED <<queue, worker, producer, storeVars, fsVars, resVars, parseVars, wsVars, moreVars>>

\* stop(): self._worker.join(timeout=60) returns: the worker has exited, or
\* the timeout has passed, or the thread was never started (RuntimeError)
M_Join ==
  /\ caller.pc = "join"
  /\ caller' = [caller EXCEPT !.pc = "idle"]
  /\ UNCHANGED <<queue, stop_event, worker, producer, hist, storeVars, fsVars, resVars,
                 parseVars, wsVars, moreVars>>

\* _llm_worker: the test of the while loop
W_Check(w) ==
  /\ worker[w].state = "alive"
  /\ worker[w].pc = "check"
  /\ worker' = IF loop_ends(stop_event, queue)
               THEN [worker EXCEPT ![w] = [state |-> "exited", pc |-> "-", item |-> 0]]
               ELSE [worker EXCEPT ![w].pc = "get"]
  /\ UNCHANGED <<queue, stop_event, producer, caller, hist, storeVars, fsVars, resVars,
                 parseVars, wsVars, moreVars>>

\* _llm_worker: self._queue.get(timeout=0.5); `except queue.Empty: continue`
W_Get(w) ==
  /\ worker[w].state = "alive"
  /\ worker[w].pc = "get"
  /\ IF queue /= <<>>
     THEN /\ queue' = queue_get(queue).rest
          /\ worker' = [worker EXCEPT ![w].pc = "snapshot", ![w].item = queue_get(queue).item]
     ELSE /\ queue' = queue
          /\ worker' = [worker EXCEPT ![w].pc = "check"]
  /\ UNCHANGED <<stop_event, producer, caller, hist, storeVars, fsVars, resVars,
                 parseVars, wsVars, moreVars>>

\* _llm_worker: snapshot = self.state_manager.get_snapshot()
W_GetSnapshot(w) ==
  /\ worker[w].state = "alive"
  /\ worker[w].pc = "snapshot"
  /\ frame[w].pc = "idle"
  /\ frame' = [frame EXCEPT ![w] = [IdleFrame EXCEPT !.pc = "gs_lock", !.op = "get_snapshot",
                                                      !.self = 1]]
  /\ worker' = [worker EXCEPT ![w].pc = "in_get_snapshot"]
  /\ UNCHANGED <<surgery, machines, last_transcription, last_reasoning, lock, callbacks,
                 clock, done, nops, queue, stop_event, producer, caller, hist,
                 fsVars, resVars, parseVars, wsVars, moreVars>>

\* _llm_worker: get_snapshot has returned; self.llm.infer(text, snapshot) begins
W_InferBegin(w) ==
  /\ worker[w].state = "alive"
  /\ worker[w].pc = "in_get_snapshot"
  /\ frame[w].pc = "idle"
  /\ worker' = [worker EXCEPT ![w].pc = "infer"]
  /\ hist' = [hist EXCEPT !.inferred = Append(@, worker[w].item)]
  /\ UNCHANGED <<queue, stop_event, producer, caller, storeVars, fsVars, resVars,
                 parseVars, wsVars, moreVars>>

\* _llm_worker: infer ends.  It returned: the StateUpdateRequest is built
\* and self.state_manager.apply_update(req) called.  It raised: `except
\* Exception` logs the error.
W_InferEnd(w, res) ==
  /\ worker[w].state = "alive"
  /\ worker[w].pc = "infer"
  /\ IF res.raised
     THEN /\ hist' = [hist EXCEPT !.failed = @ \cup {worker[w].item}]
          /\ worker' = IF after_error = "task_done"
                       THEN [worker EXCEPT ![w].pc = "task_done"]
                       ELSE [worker EXCEPT ![w] = [state |-> "exited", pc |-> "-", item |-> 0]]
          /\ frame' = frame
     ELSE /\ hist' = [hist EXCEPT !.applied = Append(@, worker[w].item)]
          /\ worker' = [worker EXCEPT ![w].pc = "in_apply_update"]
          /\ frame' = [frame EXCEPT ![w] =
                         [IdleFrame EXCEPT !.pc = "au_lock", !.op = "apply_update", !.self = 1,
                            !.req = Req(res.on, res.off, Text(worker[w].item))]]
  /\ UNCHANGED <<surgery, machines, last_transcription, last_reasoning, lock, callbacks,
                 clock, done, nops, queue, stop_event, producer, caller,
                 fsVars, resVars, parseVars, wsVars, moreVars>>

\* _llm_worker: apply_update has returned (or the error was logged);
\* `finally: self._queue.task_done()`, and back to the test of the loop
W_TaskDone(w) ==
  /\ worker[w].state = "alive"
  /\ \/ worker[w].pc = "task_done"
     \/ worker[w].pc = "in_apply_update" /\ frame[w].pc = "idle"
  /\ worker' = [worker EXCEPT ![w].pc = "check", ![w].item = 0]
  /\ UNCHANGED <<queue, stop_event, producer, caller, hist, storeVars, fsVars, resVars,
                 parseVars, wsVars, moreVars>>

\* the steps of the store calls a worker is in
W_Store(w) ==
  /\ worker[w].state = "alive"
  /\ \/ GS_Acquire(w) \/ Release(w) \/ Return(w)
     \/ AU_Acquire(w) \/ AU_TurnOn(w) \/ AU_TurnOff(w) \/ AU_Build(w)
     \/ WJ_Open(w) \/ WJ_Write(w) \/ WJ_Replace(w) \/ WJ_Error(w)
     \/ \E raised \in BOOLEAN : AU_Callback(w, raised)

W_Step(w) ==
  \/ W_Check(w) \/ W_Get(w) \/ W_GetSnapshot(w) \/ W_InferBegin(w)
  \/ \E res \in InferResults : W_InferEnd(w, res)
  \/ W_TaskDone(w)
  \/ W_Store(w)

NoPipe ==
  /\ queue = <<>>
  /\ stop_event = FALSE
  /\ worker = [w \in Threads |-> NoWorker]
  /\ producer = [pc |-> "idle", item |-> 0]
  /\ caller = [pc |-> "idle", calls |-> 0]
  /\ hist = [pushed |-> 0, dropped |-> {}, lost |-> {}, raised |-> {}, inferred |-> <<>>,
             failed |-> {}, applied |-> <<>>, starts |-> 0, at_stop |-> {}]

\* --------------------------------------------------------------- websocket
\* backend/server/websocket.py: ConnectionManager.  The broadcasts are
\* coroutines of one event loop: they interleave at each `await`.
Observers  == 1..NumObservers
Broadcasts == 1..MaxBroadcasts

NoBroadcast == [pc |-> "new", payload |-> 0, at_start |-> {}, todo |-> {}, cur |-> 0, dead |-> {},
                delivered |-> {}, failed |-> {}, removed |-> {}]

\* apply_update calls the callback once per update, after the update: the
\* k-th call of broadcast_from_thread carries the k-th snapshot
Calls == Cardinality({b \in Broadcasts : bcast[b].pc # "new"})

\* run_coroutine_threadsafe hands the coroutines to the loop with
\* call_soon_threadsafe: they start in the order they were scheduled
FirstScheduled(b) ==
  \A c \in Broadcasts : bcast[c].pc = "scheduled" => bcast[b].payload <= bcast[c].payload

\* broadcast, `except Exception: dead.add(ws)`: the loop goes on with the
\* rest of the snapshot; an error not caught would end it
rest_after_error_abort(todo, o) == {}
rest_after_error(todo, o) == todo \ {o}

\* connect(ws): `await ws.accept()`, then self._clients.add(ws)
WS_Connect(o) ==
  /\ conn[o] = "new"
  /\ conn' = [conn EXCEPT ![o] = "connected"]
  /\ clients' = clients \cup {o}
  /\ UNCHANGED <<bcast, received, storeVars, fsVars, resVars, parseVars, pipeVars, moreVars>>

\* disconnect(ws): self._clients.discard(ws), called once by the handler of
\* the connection when it ends
WS_Disconnect(o) ==
  /\ conn[o] = "connected"
  /\ conn' = [conn EXCEPT ![o] = "closed"]
  /\ clients' = clients \ {o}
  /\ UNCHANGED <<bcast, received, storeVars, fsVars, resVars, parseVars, pipeVars, moreVars>>

\* broadcast_from_thread: nothing is scheduled when there is no client
B_Schedule(b) ==
  /\ bcast[b].pc = "new"
  /\ bcast' = [bcast EXCEPT ![b].pc = IF clients = {} THEN "skipped" ELSE "scheduled",
                            ![b].payload = Calls + 1]
  /\ UNCHANGED <<clients, conn, received, storeVars, fsVars, resVars, parseVars, pipeVars, moreVars>>

\* The messages of one socket leave in the order their send_text calls were
\* begun: received[o] lists the payloads handed to o, a failed one taken out
Handed(rcv, o, k) == IF o = 0 THEN rcv ELSE [rcv EXCEPT ![o] = Append(@, k)]
NotHanded(rcv, o, k) == [rcv EXCEPT ![o] = SelectSeq(@, LAMBDA x : x # k)]

\* `for ws in clients_snapshot`: the next client the set yields, 0 at its
\* end.  A set yields its members in the order of their hashes, the same in
\* every copy: the observers are numbered in that order
NextClient(todo) == IF todo = {} THEN 0 ELSE Least(todo)

\* broadcast: the payload is serialised, self._clients copied under the lock,
\* and the coroutine runs on into its first `await ws.send_text(payload)`
B_Start(b) ==
  /\ bcast[b].pc = "scheduled"
  /\ FirstScheduled(b)
  /\ bcast' = [bcast EXCEPT ![b].pc = "sending", ![b].at_start = clients,
                            ![b].todo = clients, ![b].cur = NextClient(clients)]
  /\ received' = Handed(received, NextClient(clients), bcast[b].payload)
  /\ UNCHANGED <<clients, conn, storeVars, fsVars, resVars, parseVars, pipeVars, moreVars>>

\* broadcast: the awaited send_text to o returns, or raises, and the
\* coroutine runs on into the send to the next client of its snapshot
B_Send(b, o, ok) ==
  /\ bcast[b].pc = "sending"
  /\ o \in bcast[b].todo
  /\ bcast[b].cur = o
  /\ bcast' = IF ok
              THEN [bcast EXCEPT ![b].todo = @ \ {o}, ![b].delivered = @ \cup {o},
                                 ![b].cur = NextClient(bcast[b].todo \ {o})]
              ELSE [bcast EXCEPT ![b].todo = rest_after_error(@, o),
                                 ![b].dead = @ \cup {o}, ![b].failed = @ \cup {o},
                                 ![b].cur = NextClient(rest_after_error(bcast[b].todo, o))]
  /\ received' = IF ok
                 THEN Handed(received, NextClient(bcast[b].todo \ {o}), bcast[b].payload)
                 ELSE Handed(NotHanded(received, o, bcast[b].payload),
                             NextClient(rest_after_error(bcast[b].todo, o)), bcast[b].payload)
  /\ UNCHANGED <<clients, conn, storeVars, fsVars, resVars, parseVars, pipeVars, moreVars>>

\* broadcast: `if dead: self._clients -= dead`, and the coroutine returns
B_Finish(b) ==
  /\ bcast[b].pc = "sending"
  /\ bcast[b].todo = {}
  /\ clients' = clients \ bcast[b].dead
  /\ bcast' = [bcast EXCEPT ![b].pc = "done", ![b].removed = clients \cap bcast[b].dead]
  /\ UNCHANGED <<conn, received, storeVars, fsVars, resVars, parseVars, pipeVars, moreVars>>

NoWs ==
  /\ clients = {}
  /\ conn = [o \in Observers |-> "new"]
  /\ bcast = [b \in Broadcasts |-> NoBroadcast]
  /\ received = [o \in Observers |-> <<>>]

\* --------------------------------------------------------------- segmenter
\* backend/asr/audio.py: AudioCapture, the energy VAD that cuts the stream of
\* frames into utterances.  Every frame has BLOCK_SIZE samples (the
\* blocksize of the input stream, the chunks of push_block), so a buffer is
\* the sequence of the frames in it, a frame being its number in the input,
\* and the thresholds in samples are multiples of BLOCK_SIZE.  An RMS is in
\* thousandths, a duration in hundredths of a second.
BLOCK_SIZE            == 320
SAMPLE_RATE           == 16000
SPEECH_RMS_THRESHOLD  == 12
SILENCE_RMS_THRESHOLD == 7
SILENCE_DURATION_SEC  == 75
MIN_SPEECH_SEC        == 30
MAX_SPEECH_SEC        == 1000
PRE_ROLL_SEC          == 50

\* __init__: the thresholds for a sample rate, int() rounding down; the
\* silence count is in frames (in samples it would never be reached)
Thresholds_in_samples(sample_rate) ==
  [silence_frames_needed |-> (SILENCE_DURATION_SEC * sample_rate) \div 100,
   min_speech_samples    |-> (MIN_SPEECH_SEC * sample_rate) \div 100,
   max_speech_samples    |-> (MAX_SPEECH_SEC * sample_rate) \div 100,
   pre_roll_samples      |-> (PRE_ROLL_SEC * sample_rate) \div 100]
Thresholds(sample_rate) ==
  [silence_frames_needed |-> (SILENCE_DURATION_SEC * sample_rate) \div (100 * BLOCK_SIZE),
   min_speech_samples    |-> (MIN_SPEECH_SEC * sample_rate) \div 100,
   max_speech_samples    |-> (MAX_SPEECH_SEC * sample_rate) \div 100,
   pre_roll_samples      |-> (PRE_ROLL_SEC * sample_rate) \div 100]

\* the thresholds scaled down to a few frames, in the same order
\* (pre-roll < minimum < maximum)
ShortThresholds ==
  [silence_frames_needed |-> SilenceFrames,
   min_speech_samples    |-> MinSpeechFrames * BLOCK_SIZE,
   max_speech_samples    |-> MaxSpeechFrames * BLOCK_SIZE,
   pre_roll_samples      |-> PreRollFrames * BLOCK_SIZE]

\* __init__: IDLE, empty buffers
NewSegmenter(th) ==
  [th |-> th, state |-> "IDLE", silence_frame_count |-> 0, pre_roll |-> <<>>,
   speech_buf |-> <<>>, running |-> TRUE]

RmsLevels == {0, 10, 50}
Free      == <<-1>>
FreeLong  == <<-2>>
FeedLimit(fd) == IF fd = Free THEN MaxFrames ELSE MaxLongFrames

\* what has happened: the frames fed, the level of the last one, the
\* bursts, the emissions, the frames and polls counted since TRAILING was
\* entered (trail), whether a poll was counted in the latest stay in
\* TRAILING, and whether the utterance went back from TRAILING to SPEAKING
NoSegHist == [fed |-> 0, rms |-> 0, bursts |-> 0, emitted |-> <<>>, trail |-> 0,
              polled |-> FALSE, resumed |-> FALSE]

\* deque(maxlen=n).extend(block): the newest n samples stay
DequeExtend(dq, f, maxlen) ==
  IF (Len(dq) + 1) * BLOCK_SIZE > maxlen
  THEN SubSeq(Append(dq, f), Len(dq) + 2 - (maxlen \div BLOCK_SIZE), Len(dq) + 1)
  ELSE Append(dq, f)

\* _emit_utterance, `audio = audio[: self._max_speech_samples]`
hard_cap_no_trim(audio, max_samples) == audio
hard_cap_trim(audio, max_samples) ==
  IF Len(audio) * BLOCK_SIZE > max_samples
  THEN SubSeq(audio, 1, max_samples \div BLOCK_SIZE)
  ELSE audio

\* _emit_utterance: what it does with the two buffers; the callback is
\* called when the audio is long enough, and returns or raises
Emission_length_in_frames(pre, utt, audio, th, raises, burst) ==
  [pre |-> pre, utt |-> utt, audio |-> audio, burst |-> burst,
   delivered |-> Len(audio) >= th.min_speech_samples,
   raised |-> Len(audio) >= th.min_speech_samples /\ raises]
Emission(pre, utt, audio, th, raises, burst) ==
  [pre |-> pre, utt |-> utt, audio |-> audio, burst |-> burst,
   delivered |-> Len(audio) * BLOCK_SIZE >= th.min_speech_samples,
   raised |-> Len(audio) * BLOCK_SIZE >= th.min_speech_samples /\ raises]

_emit_utterance(s, raises, burst) ==
  Emission(s.pre_roll, s.speech_buf,
           hard_cap_trim(s.pre_roll \o s.speech_buf, s.th.max_speech_samples),
           s.th, raises, burst)

\* _worker: the assignments that follow each call of _emit_utterance; the
\* poll-timeout branch has no `self._pre_roll = deque(...)`
AfterEmit_no_reset(s, reset_pre_roll) == s
AfterEmit(s, reset_pre_roll) ==
  [s EXCEPT !.speech_buf = <<>>, !.silence_frame_count = 0, !.state = "IDLE",
            !.pre_roll = IF reset_pre_roll THEN <<>> ELSE @]

\* _emit_utterance, `except Exception as exc: logger.error(...)`: the call
\* returns; an exception leaving it would end the worker thread there
callback_error_escapes(before, after) == [before EXCEPT !.running = FALSE]
callback_error(before, after) == after

EmitAndReset(s, raised, reset_pre_roll) ==
  IF raised THEN callback_error(s, AfterEmit(s, reset_pre_roll))
  ELSE AfterEmit(s, reset_pre_roll)

\* _worker, `except queue.Empty`: does this poll timeout call _emit_utterance
TimeoutEmits(s) ==
  /\ s.state = "TRAILING"
  /\ s.silence_frame_count + 1 >= s.th.silence_frames_needed

\* _worker: does this frame call _emit_utterance
FrameEmits(s, rms) ==
  \/ /\ s.state = "SPEAKING"
     /\ (Len(s.speech_buf) + 1) * BLOCK_SIZE >= s.th.max_speech_samples
  \/ /\ s.state = "TRAILING"
     /\ rms < SPEECH_RMS_THRESHOLD
     /\ s.silence_frame_count + 1 >= s.th.silence_frames_needed

\* _worker, `except queue.Empty`: only TRAILING counts the poll
OnTimeout(s, raises) ==
  IF s.state # "TRAILING" THEN s
  ELSE IF TimeoutEmits(s)
  THEN EmitAndReset([s EXCEPT !.silence_frame_count = @ + 1],
                    _emit_utterance(s, raises, 0).raised, FALSE)
  ELSE [s EXCEPT !.silence_frame_count = @ + 1]

\* _worker, SPEAKING: `if rms < SILENCE_RMS_THRESHOLD`, the lower of the two
\* thresholds
is_silence_below_speech(rms) == rms < SPEECH_RMS_THRESHOLD
is_silence(rms) == rms < SILENCE_RMS_THRESHOLD

\* _worker: one frame f of the given RMS; in IDLE the frame enters the
\* pre-roll before its level is looked at
OnIdleFrame_speech_not_in_pre_roll(s, f, rms) ==
  IF rms >= SPEECH_RMS_THRESHOLD
  THEN [s EXCEPT !.state = "SPEAKING", !.speech_buf = <<f>>]
  ELSE [s EXCEPT !.pre_roll = DequeExtend(@, f, s.th.pre_roll_samples)]
OnIdleFrame(s, f, rms) ==
  IF rms >= SPEECH_RMS_THRESHOLD
  THEN [s EXCEPT !.pre_roll = DequeExtend(@, f, s.th.pre_roll_samples),
                 !.state = "SPEAKING", !.speech_buf = <<f>>]
  ELSE [s EXCEPT !.pre_roll = DequeExtend(@, f, s.th.pre_roll_samples)]

OnSpeakingFrame(s, f, rms, raises) ==
  IF FrameEmits(s, rms)
  THEN EmitAndReset([s EXCEPT !.speech_buf = Append(@, f)],
                    _emit_utterance([s EXCEPT !.speech_buf = Append(@, f)], raises, 0).raised,
                    TRUE)
  ELSE IF is_silence(rms)
  THEN [s EXCEPT !.speech_buf = Append(@, f), !.state = "TRAILING",
                 !.silence_frame_count = 1]
  ELSE [s EXCEPT !.speech_buf = Append(@, f)]

OnTrailingFrame(s, f, rms, raises) ==
  IF rms >= SPEECH_RMS_THRESHOLD
  THEN [s EXCEPT !.speech_buf = Append(@, f), !.state = "SPEAKING",
                 !.silence_frame_count = 0]
  ELSE IF FrameEmits(s, rms)
  THEN EmitAndReset([s EXCEPT !.speech_buf = Append(@, f), !.silence_frame_count = @ + 1],
                    _emit_utterance([s EXCEPT !.speech_buf = Append(@, f)], raises, 0).raised,
                    TRUE)
  ELSE [s EXCEPT !.speech_buf = Append(@, f), !.silence_frame_count = @ + 1]

OnFrame(s, f, rms, raises) ==
  IF s.state = "IDLE" THEN OnIdleFrame(s, f, rms)
  ELSE IF s.state = "SPEAKING" THEN OnSpeakingFrame(s, f, rms, raises)
  ELSE OnTrailingFrame(s, f, rms, raises)

\* the next frame reaches _worker: block = self._audio_queue.get(timeout=0.05)
SegFrame(rms, raises) ==
  /\ seg.running
  /\ IF feed \in {Free, FreeLong}
     THEN seg_hist.fed < FeedLimit(feed) /\ feed' = feed
     ELSE feed # <<>> /\ rms = Head(feed) /\ feed' = Tail(feed)
  /\ seg' = OnFrame(seg, seg_hist.fed + 1, rms, raises)
  /\ seg_hist' =
       [fed     |-> seg_hist.fed + 1,
        rms     |-> rms,
        trail   |-> IF seg'.state # "TRAILING" THEN 0
                    ELSE IF seg.state = "TRAILING" THEN seg_hist.trail + 1 ELSE 1,
        polled  |-> IF seg.state = "SPEAKING" /\ seg'.state = "TRAILING" THEN FALSE
                    ELSE seg_hist.polled,
        resumed |-> IF seg.state = "IDLE" THEN FALSE
                    ELSE seg_hist.resumed \/ (seg.state = "TRAILING" /\ seg'.state = "SPEAKING"),
        bursts  |-> IF seg.state = "IDLE" /\ rms >= SPEECH_RMS_THRESHOLD
                    THEN seg_hist.bursts + 1 ELSE seg_hist.bursts,
        emitted |-> IF FrameEmits(seg, rms)
                    THEN Append(seg_hist.emitted,
                                _emit_utterance([seg EXCEPT !.speech_buf =
                                                   Append(@, seg_hist.fed + 1)],
                                                raises, seg_hist.bursts))
                    ELSE seg_hist.emitted]
  /\ UNCHANGED <<storeVars, fsVars, resVars, parseVars, pipeVars, wsVars, pbVars, sessVars, lateVars>>

\* no frame within the poll interval: queue.Empty
SegTimeout(raises) ==
  /\ seg.running
  /\ seg' = OnTimeout(seg, raises)
  /\ seg_hist' = IF TimeoutEmits(seg)
                 THEN [seg_hist EXCEPT !.emitted =
                         Append(@, _emit_utterance(seg, raises, seg_hist.bursts)),
                                       !.trail = 0, !.polled = TRUE]
                 ELSE IF seg.state = "TRAILING"
                 THEN [seg_hist EXCEPT !.trail = @ + 1, !.polled = TRUE]
                 ELSE seg_hist
  /\ UNCHANGED <<feed, storeVars, fsVars, resVars, parseVars, pipeVars, wsVars, pbVars,
                 sessVars, lateVars>>

NoSeg ==
  /\ seg = NewSegmenter(ShortThresholds)
  /\ feed = <<>>
  /\ seg_hist = NoSegHist

\* push_block: a block of L samples is cut into chunks; a chunk is the
\* slice block[lo:hi] of the k-th block pushed
Slice(k, L, i) ==
  [block |-> k, lo |-> i, hi |-> IF i + BLOCK_SIZE < L THEN i + BLOCK_SIZE ELSE L]

\* push_block, `if len(chunk) == BLOCK_SIZE`
keep_any_chunk(chunk) == TRUE
keep_chunk(chunk) == chunk.hi - chunk.lo = BLOCK_SIZE

\* push_block, `for i in range(0, len(block), BLOCK_SIZE)` from i on
RECURSIVE PutChunks(_, _, _, _)
PutChunks(q, k, L, i) ==
  IF i >= L THEN q
  ELSE PutChunks(IF keep_chunk(Slice(k, L, i)) THEN Append(q, Slice(k, L, i)) ELSE q,
                 k, L, i + BLOCK_SIZE)

push_block(q, k, L) == PutChunks(q, k, L, 0)

PushBlock ==
  /\ to_push # <<>>
  /\ audio_queue' = push_block(audio_queue, Len(pushed) + 1, Head(to_push))
  /\ pushed' = Append(pushed, Head(to_push))
  /\ to_push' = Tail(to_push)
  /\ UNCHANGED <<storeVars, fsVars, resVars, parseVars, pipeVars, wsVars, segVars, sessVars, lateVars>>

NoPush ==
  /\ to_push = <<>>
  /\ audio_queue = <<>>
  /\ pushed = <<>>

\* ---------------------------------------------------------------- sessions
\* backend/server/routes.py: the handlers of /api/session/start,
\* /api/session/stop and /api/state.  They are coroutines of one event loop:
\* a handler runs alone up to its next `await asyncio.to_thread(...)`, the
\* call runs in a thread, and the handler goes on when the loop resumes it
Reqs      == 1..NumRequests
Pipelines == 1..MaxPipelines

NoRequest == [kind |-> "-", pc |-> "new", pl |-> 0, had |-> 0, status |-> 0,
              detail |-> "", message |-> ""]

MsgNoSession == "No active pipeline session."
MsgIdle      == "No active pipeline session. Start one with POST /api/session/start."

\* ORPipeline(...): the next pipeline object, 0 when the model has no more
NewPipeline == IF \E q \in Pipelines : pipelines[q] = "none"
               THEN Least({q \in Pipelines : pipelines[q] = "none"}) ELSE 0

\* start_session up to its first await: `if app_state.pipeline is not None`
\* the previous pipeline's stop is handed to a thread; otherwise the new
\* pipeline is made and its start handed to a thread
StartBegin(r) ==
  /\ reqs[r].pc = "new"
  /\ Cardinality({q \in Reqs : reqs[q].kind = "start"}) < MaxPipelines
  /\ IF app_pipeline # 0
     THEN /\ reqs' = [reqs EXCEPT ![r] = [@ EXCEPT !.kind = "start", !.pc = "stop_call",
                                                    !.pl = app_pipeline, !.had = app_pipeline]]
          /\ UNCHANGED pipelines
     ELSE /\ reqs' = [reqs EXCEPT ![r] = [@ EXCEPT !.kind = "start", !.pc = "start_call",
                                                    !.pl = NewPipeline]]
          /\ pipelines' = [pipelines EXCEPT ![NewPipeline] = "created"]
  /\ UNCHANGED <<app_pipeline, storeVars, fsVars, resVars, parseVars, pipeVars, wsVars,
                 segVars, pbVars, lateVars>>

\* asyncio.to_thread(pipeline.stop) and asyncio.to_thread(pipeline.start,
\* False): the call made in the thread
ThreadCall(r) ==
  /\ reqs[r].pc \in {"stop_call", "start_call"}
  /\ pipelines' = [pipelines EXCEPT ![reqs[r].pl] =
                     IF reqs[r].pc = "stop_call" THEN "stopped" ELSE "running"]
  /\ reqs' = [reqs EXCEPT ![r].pc = IF reqs[r].pc = "stop_call" THEN "stop_done"
                                    ELSE "start_done"]
  /\ UNCHANGED <<app_pipeline, storeVars, fsVars, resVars, parseVars, pipeVars, wsVars,
                 segVars, pbVars, lateVars>>

\* start_session after the stop: app_state.pipeline = None, then the new
\* pipeline is made and its start handed to a thread
StartAfterStop(r) ==
  /\ reqs[r].kind = "start"
  /\ reqs[r].pc = "stop_done"
  /\ app_pipeline' = 0
  /\ reqs' = [reqs EXCEPT ![r] = [@ EXCEPT !.pc = "start_call", !.pl = NewPipeline]]
  /\ pipelines' = [pipelines EXCEPT ![NewPipeline] = "created"]
  /\ UNCHANGED <<storeVars, fsVars, resVars, parseVars, pipeVars, wsVars, segVars, pbVars, lateVars>>

\* start_session after the start: app_state.pipeline = pipeline, 200
StartEnd(r) ==
  /\ reqs[r].pc = "start_done"
  /\ app_pipeline' = reqs[r].pl
  /\ reqs' = [reqs EXCEPT ![r] = [@ EXCEPT !.pc = "done", !.status = 200]]
  /\ UNCHANGED <<pipelines, storeVars, fsVars, resVars, parseVars, pipeVars, wsVars,
                 segVars, pbVars, lateVars>>

\* stop_session up to its await: 400 when app_state.pipeline is None
StopBegin(r) ==
  /\ reqs[r].pc = "new"
  /\ reqs' = IF app_pipeline = 0
             THEN [reqs EXCEPT ![r] = [@ EXCEPT !.kind = "stop", !.pc = "done",
                                                !.status = 400, !.detail = MsgNoSession]]
             ELSE [reqs EXCEPT ![r] = [@ EXCEPT !.kind = "stop", !.pc = "stop_call",
                                                !.pl = app_pipeline, !.had = app_pipeline]]
  /\ UNCHANGED <<app_pipeline, pipelines, storeVars, fsVars, resVars, parseVars, pipeVars,
                 wsVars, segVars, pbVars, lateVars>>

\* stop_session after the stop: app_state.pipeline = None, 200
StopEnd(r) ==
  /\ reqs[r].kind = "stop"
  /\ reqs[r].pc = "stop_done"
  /\ app_pipeline' = 0
  /\ reqs' = [reqs EXCEPT ![r] = [@ EXCEPT !.pc = "done", !.status = 200]]
  /\ UNCHANGED <<pipelines, storeVars, fsVars, resVars, parseVars, pipeVars, wsVars,
                 segVars, pbVars, lateVars>>

\* get_state: a dict is returned in both branches, so the status is 200
GetState(r) ==
  /\ reqs[r].pc = "new"
  /\ reqs' = IF app_pipeline = 0
             THEN [reqs EXCEPT ![r] = [@ EXCEPT !.kind = "state", !.pc = "done",
                                                !.status = 200, !.message = MsgIdle]]
             ELSE [reqs EXCEPT ![r] = [@ EXCEPT !.kind = "state", !.pc = "done",
                                                !.status = 200, !.had = app_pipeline]]
  /\ UNCHANGED <<app_pipeline, pipelines, storeVars, fsVars, resVars, parseVars, pipeVars,
                 wsVars, segVars, pbVars, lateVars>>

NoSession ==
  /\ app_pipeline = 0
  /\ pipelines = [q \in Pipelines |-> "none"]
  /\ reqs = [r \in Reqs |-> NoRequest]

\* ---------------------------------------------------------- change_surgery
\* backend/pipeline/pipeline.py: ORPipeline.change_surgery beside _llm_worker,
\* and backend/llm/medgemma.py: MedGemmaModel.infer / change_surgery.  No
\* lock is shared by the two threads: each statement is a step.
Bridge == "broadcast_from_thread"

\* StateManager(surgery): every machine off, no subscriber
NewStore_with_bridge(s) == [surgery |-> s, machines |-> AllOff(s), callbacks |-> <<Bridge>>]
NewStore(s) == [surgery |-> s, machines |-> AllOff(s), callbacks |-> <<>>]

NoItem    == [pc |-> "idle", snap |-> "-", prompt |-> "-", parse |-> "-", store |-> 0]
NoChanger == [pc |-> "idle", to |-> "-"]

\* ORPipeline(surgery): its store, its model (loaded once) with the prompt
\* builder; cbs are the callbacks registered on the store at session start
ORPipeline(s, cbs) ==
  [surgery |-> s, state_manager |-> 1, llm_surgery |-> s, prompt_surgery |-> s,
   model_loads |-> 1, stores |-> << [NewStore(s) EXCEPT !.callbacks = cbs] >>,
   worker |-> NoItem, changer |-> NoChanger, changes |-> 0,
   items |-> <<>>, notified |-> <<>>]

\* _llm_worker: `snapshot = self.state_manager.get_snapshot()` for an item
\* taken from the queue
CS_GetSnapshot ==
  /\ orp.worker.pc = "idle"
  /\ Len(orp.items) < MaxItems
  /\ orp' = [orp EXCEPT !.worker = [NoItem EXCEPT !.pc = "messages",
                                    !.snap = orp.stores[orp.state_manager].surgery]]
  /\ UNCHANGED <<storeVars, fsVars, resVars, parseVars, pipeVars, wsVars, segVars, pbVars,
                 sessVars, link>>

\* infer: `self._prompt_builder.build_messages(...)`, then the generation
CS_BuildMessages ==
  /\ orp.worker.pc = "messages"
  /\ orp' = [orp EXCEPT !.worker.pc = "parse", !.worker.prompt = orp.prompt_surgery]
  /\ UNCHANGED <<storeVars, fsVars, resVars, parseVars, pipeVars, wsVars, segVars, pbVars,
                 sessVars, link>>

\* infer: `parse_llm_output(raw_text, self.surgery)`
CS_ParseOutput ==
  /\ orp.worker.pc = "parse"
  /\ orp' = [orp EXCEPT !.worker.pc = "load", !.worker.parse = orp.llm_surgery]
  /\ UNCHANGED <<storeVars, fsVars, resVars, parseVars, pipeVars, wsVars, segVars, pbVars,
                 sessVars, link>>

\* _llm_worker: `self.state_manager` of `self.state_manager.apply_update(req)`
CS_LoadStore ==
  /\ orp.worker.pc = "load"
  /\ orp' = [orp EXCEPT !.worker.pc = "apply", !.worker.store = orp.state_manager]
  /\ UNCHANGED <<storeVars, fsVars, resVars, parseVars, pipeVars, wsVars, segVars, pbVars,
                 sessVars, link>>

\* what became of an item: the surgery of the store its snapshot came from,
\* of the prompt, of the parser and of the store it was applied to; whether
\* a change_surgery had returned before it was applied
Processed(w, st, changes) ==
  [snap |-> w.snap, prompt |-> w.prompt, parse |-> w.parse,
   applied |-> st[w.store].surgery, store |-> w.store, after_change |-> changes > 0]

\* apply_update on the store loaded, turning on the first machine of the
\* catalog the output was parsed for; then the callbacks of that store
CS_ApplyUpdate ==
  /\ orp.worker.pc = "apply"
  /\ orp' = [orp EXCEPT
       !.stores[orp.worker.store].machines =
           turn_on_one(orp.stores[orp.worker.store].surgery, @,
                       MachineKeys(orp.worker.parse)[1]),
       !.items = Append(@, Processed(orp.worker, orp.stores, orp.changes)),
       !.notified = @ \o [k \in 1..Len(orp.stores[orp.worker.store].callbacks) |->
                            [cb |-> orp.stores[orp.worker.store].callbacks[k],
                             item |-> Len(orp.items) + 1]],
       !.worker = NoItem]
  /\ UNCHANGED <<storeVars, fsVars, resVars, parseVars, pipeVars, wsVars, segVars, pbVars,
                 sessVars, link>>

\* change_surgery(s): `self.surgery = surgery`
CH_Begin(s) ==
  /\ orp.changer.pc = "idle"
  /\ orp.changes < MaxChanges
  /\ orp' = [orp EXCEPT !.surgery = s, !.changer = [pc |-> "store", to |-> s]]
  /\ UNCHANGED <<storeVars, fsVars, resVars, parseVars, pipeVars, wsVars, segVars, pbVars,
                 sessVars, link>>

\* change_surgery: `self.state_manager = StateManager(surgery)`
CH_NewStore ==
  /\ orp.changer.pc = "store"
  /\ orp' = [orp EXCEPT !.stores = Append(@, NewStore(orp.changer.to)),
                      !.state_manager = Len(orp.stores) + 1,
                      !.changer.pc = "llm"]
  /\ UNCHANGED <<storeVars, fsVars, resVars, parseVars, pipeVars, wsVars, segVars, pbVars,
                 sessVars, link>>

\* MedGemmaModel.change_surgery: `self.surgery = surgery`
CH_LlmSurgery ==
  /\ orp.changer.pc = "llm"
  /\ orp' = [orp EXCEPT !.llm_surgery = orp.changer.to, !.changer.pc = "prompt"]
  /\ UNCHANGED <<storeVars, fsVars, resVars, parseVars, pipeVars, wsVars, segVars, pbVars,
                 sessVars, link>>

\* MedGemmaModel.change_surgery: `self._prompt_builder = PromptBuilder(surgery)`,
\* and both calls return
CH_PromptBuilder ==
  /\ orp.changer.pc = "prompt"
  /\ orp' = [orp EXCEPT !.prompt_surgery = orp.changer.to, !.changer = NoChanger,
                      !.changes = @ + 1]
  /\ UNCHANGED <<storeVars, fsVars, resVars, parseVars, pipeVars, wsVars, segVars, pbVars,
                 sessVars, link>>

\* ------------------------------------------------------ /ws/state connects
\* backend/server/routes.py: websocket_state, beside the worker thread that
\* applies updates and calls broadcast_from_thread.  The store is its count
\* of applied updates (version); the snapshot of version v is payload v.
NoLink == [version |-> 0, pending |-> FALSE, at_accept |-> [o \in Observers |-> 0],
           calm |-> [o \in Observers |-> FALSE]]

\* the worker has no callback to make and no broadcast is under way
Quiescent ==
  /\ ~link.pending
  /\ \A b \in Broadcasts : bcast[b].pc \in {"new", "skipped", "done"}

\* the handlers and the broadcasts are coroutines of one loop: none runs
\* while a handler is between two awaits (connect returned, send_to not yet
\* awaited)
LoopFree == \A o \in Observers : conn[o] # "added"

\* websocket_state: `pipeline.state_manager.get_snapshot()` is called after
\* connect(ws) has returned, not when the handler starts
snapshot_before_connect(before, now) == before
snapshot_at_connect(before, now) == now

\* websocket_state -> connect: `await ws.accept()`
H_Accept(o) ==
  /\ LoopFree
  /\ conn[o] = "new"
  /\ conn' = [conn EXCEPT ![o] = "accepting"]
  /\ link' = [link EXCEPT !.at_accept[o] = link.version, !.calm[o] = Quiescent]
  /\ UNCHANGED <<clients, bcast, received, orp, storeVars, fsVars, resVars, parseVars,
                 pipeVars, segVars, pbVars, sessVars>>

\* connect: accept has returned, `self._clients.add(ws)` under the lock
H_Add(o) ==
  /\ LoopFree
  /\ conn[o] = "accepting"
  /\ conn' = [conn EXCEPT ![o] = "added"]
  /\ clients' = clients \cup {o}
  /\ UNCHANGED <<bcast, received, lateVars, storeVars, fsVars, resVars, parseVars,
                 pipeVars, segVars, pbVars, sessVars>>

\* websocket_state: get_snapshot() and `await ws_manager.send_to(ws, ...)`
H_Snapshot(o) ==
  /\ conn[o] = "added"
  /\ conn' = [conn EXCEPT ![o] = "connected"]
  /\ received' = Handed(received, o, snapshot_at_connect(link.at_accept[o], link.version))
  /\ UNCHANGED <<clients, bcast, lateVars, storeVars, fsVars, resVars, parseVars,
                 pipeVars, segVars, pbVars, sessVars>>

\* the worker thread: apply_update changes the store under its lock
LK_Apply ==
  /\ ~link.pending
  /\ link.version < MaxBroadcasts
  /\ link' = [link EXCEPT !.version = @ + 1, !.pending = TRUE]
  /\ UNCHANGED <<wsVars, orp, storeVars, fsVars, resVars, parseVars, pipeVars, segVars,
                 pbVars, sessVars>>

\* the worker thread: the callback, broadcast_from_thread(snapshot), with
\* its unlocked `if not self._clients: return`
LK_Callback(b) ==
  /\ link.pending
  /\ b = link.version
  /\ bcast[b].pc = "new"
  /\ bcast' = [bcast EXCEPT ![b].pc = IF clients = {} THEN "skipped" ELSE "scheduled",
                            ![b].payload = link.version]
  /\ link' = [link EXCEPT !.pending = FALSE]
  /\ UNCHANGED <<clients, conn, received, orp, storeVars, fsVars, resVars, parseVars,
                 pipeVars, segVars, pbVars, sessVars>>


NoLate ==
  /\ orp = ORPipeline("SA", <<>>)
  /\ link = NoLink

NoMore == NoSeg /\ NoPush /\ NoSession /\ NoLate

\* ---------------------------------------------------------- specifications
StoreSurgeries == {"SA", "SC"}
InitCallbacks  == {<<>>, <<"s1", "s2">>}

\* the first store as its constructor leaves it: every machine off, the
\* all-off snapshot persisted
InitStore ==
  /\ surgery \in {[i \in Insts |-> IF i = 1 THEN s ELSE "-"] : s \in StoreSurgeries}
  /\ machines = [i \in Insts |-> IF i = 1 THEN AllOff(surgery[1]) ELSE <<>>]
  /\ last_transcription = [i \in Insts |-> ""]
  /\ last_reasoning = [i \in Insts |-> ""]
  /\ lock = [i \in Insts |-> 0]
  /\ callbacks \in {[i \in Insts |-> IF i = 1 THEN c ELSE <<>>] : c \in InitCallbacks}
  /\ clock = 1
  /\ frame = [t \in Threads |-> IdleFrame]
  /\ done = [t \in Threads |-> NoCall]
  /\ nops = 0
  /\ inode = [n \in Inodes |->
                IF n = 1 THEN Payload(_build_snapshot(surgery[1], AllOff(surgery[1]), "", "", 1))
                ELSE <<>>]
  /\ path = [tmp |-> 0, file |-> 1]
  /\ write_failed = FALSE

NoResolve ==
  /\ in_surgery = "-"
  /\ in_name = <<>>
  /\ out_store = NotRun
  /\ out_fuzzy = NotRun

NoAux == NoParse /\ NoPipe /\ NoWs /\ NoMore

Init == InitStore /\ NoResolve /\ NoAux

Step(t) ==
  \/ AU_Acquire(t) \/ AU_TurnOn(t) \/ AU_TurnOff(t) \/ AU_Build(t)
  \/ WJ_Open(t) \/ WJ_Write(t) \/ WJ_Replace(t) \/ WJ_Error(t)
  \/ Release(t)
  \/ \E raised \in BOOLEAN : AU_Callback(t, raised)
  \/ Return(t)
  \/ GS_Acquire(t)
  \/ RS_Acquire(t)

Next ==
  \E t \in Threads :
    \/ \E i \in Insts :
         \/ \E req \in Requests : CallApplyUpdate(t, i, req)
         \/ CallGetSnapshot(t, i)
         \/ CallReset(t, i)
         \/ \E cb \in Subs : RegisterCallback(t, i, cb)
    \/ Step(t)

\* one StateManager, called from several threads
Spec == Init /\ [][Next]_vars

\* a second StateManager constructed while the first is in use
NextMulti ==
  \/ Next
  \/ \E t \in Threads, s \in StoreSurgeries : Construct(t, 2, s)

SpecMulti == Init /\ [][NextMulti]_vars

\* the two resolvers as pure functions of (catalog, name)
InitResolve ==
  /\ InitStore
  /\ surgery[1] = "SA"
  /\ callbacks[1] = <<>>
  /\ in_surgery \in SurgeryType
  /\ in_name \in StringsUpTo(MaxNameLen)
  /\ out_store = NotRun
  /\ out_fuzzy = NotRun
  /\ NoAux

SpecResolve == InitResolve /\ [][Resolve]_vars

\* parse_llm_output as a pure function of (text, catalog)
ParseSurgeries == {"SA", "SB", "SC"}

InitParse ==
  /\ InitStore
  /\ surgery[1] = "SA"
  /\ callbacks[1] = <<>>
  /\ in_surgery \in ParseSurgeries
  /\ in_name = <<>>
  /\ out_store = NotRun
  /\ out_fuzzy = NotRun
  /\ raw_form \in IntentForms \cup OtherForms
  /\ raw_text = TextOf(raw_form)
  /\ parse_out = NotParsed
  /\ extract_out = NotExtracted
  /\ NoPipe
  /\ NoWs
  /\ NoMore

SpecParse == InitParse /\ [][Parse]_vars

\* every text of braces and letters up to MaxTextLen characters
BraceTexts == UNION {[1..n -> {"{", "}", "a"}] : n \in 0..MaxTextLen}

InitExtract ==
  /\ InitStore
  /\ surgery[1] = "SA"
  /\ callbacks[1] = <<>>
  /\ NoResolve
  /\ raw_form = [kind |-> "braces", wrap |-> "plain", quote |-> DQ, comma |-> FALSE,
                 on |-> <<>>, off |-> <<>>]
  /\ raw_text \in BraceTexts
  /\ parse_out = NotParsed
  /\ extract_out = NotExtracted
  /\ NoPipe
  /\ NoWs
  /\ NoMore

SpecExtract == InitExtract /\ [][Extract]_vars

\* one ORPipeline whose worker processes items while change_surgery is
\* called from another thread; the bridge is registered on the first store
\* or not
InitChange ==
  /\ InitStore
  /\ surgery[1] = "SA"
  /\ callbacks[1] = <<>>
  /\ NoResolve
  /\ NoParse
  /\ NoPipe
  /\ NoWs
  /\ NoSeg
  /\ NoPush
  /\ NoSession
  /\ orp \in {ORPipeline(s, cbs) : s \in StoreSurgeries, cbs \in {<<>>, <<Bridge>>}}
  /\ link = NoLink

NextChange ==
  \/ CS_GetSnapshot \/ CS_BuildMessages \/ CS_ParseOutput \/ CS_LoadStore \/ CS_ApplyUpdate
  \/ \E s \in StoreSurgeries : CH_Begin(s)
  \/ CH_NewStore \/ CH_LlmSurgery \/ CH_PromptBuilder

SpecChange == InitChange /\ [][NextChange]_vars

\* observers connecting to /ws/state while the worker applies updates
InitConnect ==
  /\ InitStore
  /\ surgery[1] = "SA"
  /\ callbacks[1] = <<>>
  /\ NoResolve
  /\ NoParse
  /\ NoPipe
  /\ NoWs
  /\ NoMore

NextConnect ==
  \/ \E o \in Observers : H_Accept(o) \/ H_Add(o) \/ H_Snapshot(o)
  \/ LK_Apply
  \/ \E b \in Broadcasts :
       \/ LK_Callback(b)
       \/ LoopFree /\ B_Start(b)
       \/ LoopFree /\ B_Finish(b)
       \/ \E o \in Observers, ok \in BOOLEAN : LoopFree /\ B_Send(b, o, ok)

SpecConnect == InitConnect /\ [][NextConnect]_vars

\* one ORPipeline: its store as the constructor leaves it, with
\* callbacks registered, the queue empty, the worker not started
InitPipeline ==
  /\ InitStore
  /\ surgery[1] = "SA"
  /\ callbacks[1] = <<"s1", "s2">>
  /\ NoResolve
  /\ NoParse
  /\ NoPipe
  /\ NoWs
  /\ NoMore

NextPipeline ==
  \/ P_Put \/ P_DropOldest \/ P_PutAgain
  \/ M_Start \/ M_Stop \/ M_Join
  \/ \E w \in Threads : W_Step(w)

SpecPipeline == InitPipeline /\ [][NextPipeline]_vars

\* the worker thread keeps running while it has a step to take (every call
\* it makes returns)
SpecPipelineFair == SpecPipeline /\ WF_vars(\E w \in Threads : W_Step(w))

\* one ConnectionManager: clients connect and leave while broadcasts run
InitBroadcast ==
  /\ InitStore
  /\ surgery[1] = "SA"
  /\ callbacks[1] = <<>>
  /\ NoResolve
  /\ NoParse
  /\ NoPipe
  /\ NoWs
  /\ NoMore

NextBroadcast ==
  \/ \E o \in Observers : WS_Connect(o) \/ WS_Disconnect(o)
  \/ \E b \in Broadcasts :
       \/ B_Schedule(b) \/ B_Start(b) \/ B_Finish(b)
       \/ \E o \in Observers, ok \in BOOLEAN : B_Send(b, o, ok)

SpecBroadcast == InitBroadcast /\ [][NextBroadcast]_vars

\* one AudioCapture with the scaled thresholds: frames of any level and poll
\* timeouts in any order, the callback returning or raising
InitSegmenter ==
  /\ InitStore
  /\ NoLate
  /\ surgery[1] = "SA"
  /\ callbacks[1] = <<>>
  /\ NoResolve
  /\ NoParse
  /\ NoPipe
  /\ NoWs
  /\ seg = NewSegmenter(ShortThresholds)
  /\ feed = Free
  /\ seg_hist = NoSegHist
  /\ NoPush
  /\ NoSession

NextSegmenter ==
  \E raises \in BOOLEAN :
    \/ \E rms \in RmsLevels : SegFrame(rms, raises)
    \/ SegTimeout(raises)

SpecSegmenter == InitSegmenter /\ [][NextSegmenter]_vars

\* _worker polls again after every timeout while it runs
SpecSegmenterFair == SpecSegmenter /\ WF_vars(\E raises \in BOOLEAN : SegTimeout(raises))

\* the thresholds of the default sample rate, and the frames of one short
\* utterance: 0.05 s of silence (two and a half frames: two or three), 0.5 s
\* at RMS 0.05, 1.0 s of silence
Frames(hundredths) == (hundredths * SAMPLE_RATE) \div (100 * BLOCK_SIZE)
Utterance(lead) ==
  [k \in 1..(lead + Frames(50) + Frames(100)) |->
     IF k > lead /\ k <= lead + Frames(50) THEN 50 ELSE 0]

InitUtterance ==
  /\ InitStore
  /\ NoLate
  /\ surgery[1] = "SA"
  /\ callbacks[1] = <<>>
  /\ NoResolve
  /\ NoParse
  /\ NoPipe
  /\ NoWs
  /\ seg = NewSegmenter(Thresholds(SAMPLE_RATE))
  /\ \E lead \in {Frames(5), Frames(5) + 1} : feed = Utterance(lead)
  /\ seg_hist = NoSegHist
  /\ NoPush
  /\ NoSession

NextUtterance == \E rms \in RmsLevels, raises \in BOOLEAN : SegFrame(rms, raises)

SpecUtterance == InitUtterance /\ [][NextUtterance]_vars

\* the thresholds of the default sample rate, frames of any level and poll
\* timeouts in any order, up to the first emission
InitDefaults ==
  /\ InitStore
  /\ NoLate
  /\ surgery[1] = "SA"
  /\ callbacks[1] = <<>>
  /\ NoResolve
  /\ NoParse
  /\ NoPipe
  /\ NoWs
  /\ seg = NewSegmenter(Thresholds(SAMPLE_RATE))
  /\ feed = FreeLong
  /\ seg_hist = NoSegHist
  /\ NoPush
  /\ NoSession

NextDefaults ==
  /\ seg_hist.emitted = <<>>
  /\ \E raises \in BOOLEAN :
       \/ \E rms \in RmsLevels : SegFrame(rms, raises)
       \/ SegTimeout(raises)

SpecDefaults == InitDefaults /\ [][NextDefaults]_vars

\* push_block as a function of the blocks it is given, one after the other:
\* lengths around the multiples of BLOCK_SIZE
BlockLens == {0, 1, BLOCK_SIZE - 1, BLOCK_SIZE, BLOCK_SIZE + 1, 2 * BLOCK_SIZE - 1,
              2 * BLOCK_SIZE, 2 * BLOCK_SIZE + 1, 2 * BLOCK_SIZE + BLOCK_SIZE \div 2,
              3 * BLOCK_SIZE}

InitPushBlock ==
  /\ InitStore
  /\ NoLate
  /\ surgery[1] = "SA"
  /\ callbacks[1] = <<>>
  /\ NoResolve
  /\ NoParse
  /\ NoPipe
  /\ NoWs
  /\ NoSeg
  /\ to_push \in [1..MaxBlocks -> BlockLens]
  /\ audio_queue = <<>>
  /\ pushed = <<>>
  /\ NoSession

SpecPushBlock == InitPushBlock /\ [][PushBlock]_vars

\* the application after startup, no session yet: requests of the three
\* kinds arrive at any time
InitSession ==
  /\ InitStore
  /\ NoLate
  /\ surgery[1] = "SA"
  /\ callbacks[1] = <<>>
  /\ NoResolve
  /\ NoParse
  /\ NoPipe
  /\ NoWs
  /\ NoSeg
  /\ NoPush
  /\ NoSession

NextSession ==
  \E r \in Reqs :
    \/ StartBegin(r) \/ ThreadCall(r) \/ StartAfterStop(r) \/ StartEnd(r)
    \/ StopBegin(r) \/ StopEnd(r)
    \/ GetState(r)

SpecSession == InitSession /\ [][NextSession]_vars


\* ================================================================= claims
NoDup(q) == \A i, j \in 1..Len(q) : i /= j => q[i] /= q[j]

OnList(snap)  == snap.machine_states["1"]
OffList(snap) == snap.machine_states["0"]

CatalogIds(s) == {MACHINES[s][k].name : k \in 1..Len(MACHINES[s])}

\* the call of thread t has built the snapshot it is going to return
HasSnapshot(t) == frame[t].snapshot /= NoSnapshot

\* thread t is in apply_update, past _build_snapshot
Applied(t) == frame[t].op = "apply_update" /\ HasSnapshot(t)

\* thread t is in apply_update, at `return snapshot`
AtReturn(t) ==
  /\ frame[t].op = "apply_update"
  /\ frame[t].pc = "au_cb"
  /\ frame[t].idx > Len(callbacks[frame[t].self])

\* a request applied to the map m in one piece: every turn_on name, then
\* every turn_off name
RECURSIVE TurnOnAll(_, _, _)
TurnOnAll(s, m, names) ==
  IF names = <<>> THEN m ELSE TurnOnAll(s, turn_on_one(s, m, Head(names)), Tail(names))

RECURSIVE TurnOffAll(_, _, _)
TurnOffAll(s, m, names) ==
  IF names = <<>> THEN m ELSE TurnOffAll(s, turn_off_one(s, m, Head(names)), Tail(names))

ApplyWhole(s, m, req) == TurnOffAll(s, TurnOnAll(s, m, req.turn_on), req.turn_off)

OnSet(s, m)  == {n \in CatalogIds(s) : m[n]}

\* C1: every snapshot a call of the store returns (apply_update, reset,
\* get_snapshot) has an on-list and an off-list without duplicates, disjoint,
\* whose union is exactly the catalog's ids, so |on| + |off| = |catalog|.
C1_SnapshotPartition ==
  \A t \in Threads :
    HasSnapshot(t) =>
      LET snap == frame[t].snapshot
          ids  == CatalogIds(surgery[frame[t].self])
      IN /\ NoDup(OnList(snap)) /\ NoDup(OffList(snap))
         /\ Range(OnList(snap)) \cap Range(OffList(snap)) = {}
         /\ Range(OnList(snap)) \cup Range(OffList(snap)) = ids
         /\ Len(OnList(snap)) + Len(OffList(snap)) = Cardinality(ids)

\* C1 witness: an apply_update is about to return a snapshot with machines
\* on and machines off.
C1_Witness ==
  \E t \in Threads :
    AtReturn(t) /\ OnList(frame[t].snapshot) /= <<>> /\ OffList(frame[t].snapshot) /= <<>>

\* the part of a call of apply_update / reset / get_snapshot under the lock
InCritical(t) ==
  frame[t].pc \in {"au_on", "au_off", "au_build", "wj_open", "wj_write",
                   "wj_replace", "unlock"} /\ frame[t].op /= "init"

\* C2: concurrent apply_update calls on one store are totally ordered by its
\* lock: at most one call is inside the locked region; when a call leaves
\* it the store's map is exactly the map found at lock entry with the
\* call's request applied in one piece (so the updates compose one after
\* another and none is lost); and the snapshot the caller gets back is that
\* fully applied state.
C2_UpdatesSerialized ==
  /\ \A t, u \in Threads :
       (t /= u /\ InCritical(t) /\ InCritical(u)) => frame[t].self /= frame[u].self
  /\ \A t \in Threads :
       Applied(t) =>
         LET f == frame[t]
             s == surgery[f.self]
             after == ApplyWhole(s, f.pre, f.req)
         IN /\ InCritical(t) => machines[f.self] = after
            /\ Range(OnList(f.snapshot)) = OnSet(s, after)
            /\ Range(OffList(f.snapshot)) = CatalogIds(s) \ OnSet(s, after)

\* C2 witness: two apply_update calls overlapped; the second one found the
\* first one's result at lock entry, changed it, and is leaving the locked
\* region while the first has not returned yet.
C2_Witness ==
  \E t, u \in Threads :
    /\ t /= u
    /\ Applied(t) /\ frame[t].pc = "au_cb"
    /\ Applied(u) /\ frame[u].pc = "unlock"
    /\ frame[u].self = frame[t].self
    /\ frame[u].pre = ApplyWhole(surgery[frame[t].self], frame[t].pre, frame[t].req)
    /\ OnSet(surgery[frame[u].self], frame[u].pre) /= {}
    /\ machines[frame[u].self] /= frame[u].pre

\* the entities a request names in both of its lists
NamedInBoth(s, req) ==
  {e \in CatalogIds(s) :
     /\ \E k \in 1..Len(req.turn_on)  : _resolve_name(s, req.turn_on[k]) = e
     /\ \E k \in 1..Len(req.turn_off) : _resolve_name(s, req.turn_off[k]) = e}

\* C3 (as claimed): an entity named in both turn_on and turn_off is ON in
\* the snapshot apply_update returns.
C3_OnWinsTies ==
  \A t \in Threads :
    Applied(t) =>
      \A e \in NamedInBoth(surgery[frame[t].self], frame[t].req) :
        e \in Range(OnList(frame[t].snapshot))

\* C3 (amended): an entity named in both turn_on and turn_off is OFF in the
\* snapshot apply_update returns, whatever its state was before the call:
\* the turn_off list is applied after the turn_on list.
C3_OffWinsTies ==
  \A t \in Threads :
    Applied(t) =>
      \A e \in NamedInBoth(surgery[frame[t].self], frame[t].req) :
        /\ e \in Range(OffList(frame[t].snapshot))
        /\ e \notin Range(OnList(frame[t].snapshot))

\* C3 witness: an apply_update naming an entity in both lists is about to
\* return, and the entity was ON before the call.
C3_Witness ==
  \E t \in Threads :
    /\ AtReturn(t)
    /\ \E e \in NamedInBoth(surgery[frame[t].self], frame[t].req) : frame[t].pre[e]

\* every name of the list resolves to an entity that is ON in m
OnlyNamesOn(s, m, names) ==
  \A k \in 1..Len(names) :
    LET e == _resolve_name(s, names[k]) IN Truthy(e) /\ m[e]

\* C4: an apply_update whose turn_on names only entities that are already ON
\* (turn_off empty) returns a snapshot with the same on-list and off-list
\* as before the call, no entity listed twice.
C4_Idempotent ==
  \A t \in Threads :
    LET f == frame[t]
        s == surgery[f.self]
    IN (/\ Applied(t)
        /\ f.req.turn_on /= <<>> /\ f.req.turn_off = <<>>
        /\ OnlyNamesOn(s, f.pre, f.req.turn_on))
       => /\ OnList(f.snapshot) = on_machines(s, f.pre)
          /\ OffList(f.snapshot) = off_machines(s, f.pre)
          /\ NoDup(OnList(f.snapshot)) /\ NoDup(OffList(f.snapshot))

\* C4 witness: such a call is about to return.
C4_Witness ==
  \E t \in Threads :
    /\ AtReturn(t)
    /\ frame[t].req.turn_on /= <<>> /\ frame[t].req.turn_off = <<>>
    /\ OnlyNamesOn(surgery[frame[t].self], frame[t].pre, frame[t].req.turn_on)

\* a name that belongs to no entity of the catalog: empty or whitespace
\* only, or no part of any id (ignoring case)
BelongsToNoEntity(s, name) ==
  LET n == Strip(Lower(name)) IN
    \/ n = <<>>
    \/ \A e \in CatalogIds(s) : ~IsSubstr(n, Lower(e))

\* C5 (as claimed): an apply_update all of whose names belong to no entity
\* of the catalog, the empty and the whitespace-only string included,
\* changes no entity's on/off state.
C5_UnknownNamesIgnored ==
  \A t \in Threads :
    LET f == frame[t]
        s == surgery[f.self]
    IN (/\ Applied(t)
        /\ \A k \in 1..Len(f.req.turn_on)  : BelongsToNoEntity(s, f.req.turn_on[k])
        /\ \A k \in 1..Len(f.req.turn_off) : BelongsToNoEntity(s, f.req.turn_off[k]))
       => /\ OnList(f.snapshot) = on_machines(s, f.pre)
          /\ OffList(f.snapshot) = off_machines(s, f.pre)

\* C6: when apply_update returns, every registered subscriber has been
\* invoked exactly once, in registration order, with the snapshot being
\* returned and without the caller holding the store's lock; an exception
\* raised by a subscriber never ends the call (no call ends "raised").
C6_SubscribersNotified ==
  /\ \A t \in Threads : done[t].outcome /= "raised"
  /\ \A t \in Threads :
       frame[t].op = "apply_update" =>
         LET f == frame[t] IN
         /\ \A k \in 1..Len(f.calls) :
              /\ k <= Len(callbacks[f.self])
              /\ f.calls[k].cb = callbacks[f.self][k]
              /\ f.calls[k].snapshot = f.snapshot
              /\ ~f.calls[k].locked
         /\ AtReturn(t) => Len(f.calls) = Len(callbacks[f.self])

\* C6 witness: an apply_update is about to return after its first
\* subscriber raised and a later one was still invoked.
C6_Witness ==
  \E t \in Threads :
    /\ AtReturn(t)
    /\ Len(frame[t].calls) >= 2
    /\ frame[t].calls[1].raised

\* C7 (as claimed): the persisted file, whenever it exists, holds one
\* complete snapshot, for all writers of the file.
C7_FileAlwaysComplete ==
  path.file /= 0 => IsComplete(inode[path.file])

WritePcs == {"wj_open", "wj_write", "wj_replace"}

\* C8 (as claimed): no get_snapshot call waits for the store's lock while
\* another thread holds it in the persistence write of apply_update or reset.
C8_NeverWaitsForWrite ==
  \A t, u \in Threads :
    ~(/\ frame[t].pc = "gs_lock"
      /\ lock[frame[t].self] = u
      /\ frame[u].pc \in WritePcs)

\* C8 (amended): get_snapshot is read-only and does no file I/O itself: no
\* step of a get_snapshot call changes an entity's state, the command text,
\* the reasoning or the files, and the call never opens a file.
C8_ReadOnly ==
  /\ [][\A t \in Threads :
          ((frame[t].op = "get_snapshot" \/ frame'[t].op = "get_snapshot")
             /\ frame'[t] /= frame[t])
          => UNCHANGED <<machines, last_transcription, last_reasoning, inode, path>>]_vars
  /\ [](\A t \in Threads :
          frame[t].op = "get_snapshot" =>
            frame[t].pc \notin WritePcs /\ frame[t].fd = 0)

\* C8 witness: a get_snapshot call holds the lock with its snapshot built,
\* showing a machine that is on.
C8_Witness ==
  \E t \in Threads :
    /\ frame[t].op = "get_snapshot"
    /\ frame[t].pc = "unlock"
    /\ OnList(frame[t].snapshot) /= <<>>


\* ------------------------------------------------------ claims: resolvers
Resolved == out_store /= NotRun

WellFormedIds(s) ==
  \A i \in 1..Len(MACHINES[s]) :
    LET e == MACHINES[s][i] IN
    /\ Strip(e.name) = e.name
    /\ \A j \in 1..Len(MACHINES[s]) :
         j /= i =>
           /\ Lower(MACHINES[s][j].name) /= Lower(e.name)
           /\ \A k \in 1..Len(MACHINES[s][j].aliases) :
                Lower(MACHINES[s][j].aliases[k]) /= Lower(e.name)

KeysOf(s, i) ==
  {Lower(MACHINES[s][i].name)} \cup
  {Lower(MACHINES[s][i].aliases[k]) : k \in 1..Len(MACHINES[s][i].aliases)}

\* the input mentions entity i by the key a and nothing of another entity
\* beyond what is part of a
MentionsOnly(s, i, a, name) ==
  /\ IsSubstr(a, Lower(name))
  /\ \A j \in 1..Len(MACHINES[s]) :
       j /= i => \A k \in KeysOf(s, j) : IsSubstr(k, Lower(name)) => IsSubstr(k, a)

\* C10 (as claimed): the parser's resolver returns E's id for E's exact
\* canonical name, for any declared alias of E in any letter case, and for
\* any phrase that contains an alias of E (here: phrases in which a key of
\* another entity occurs only inside that alias).
C10_RoundTrip ==
  Resolved =>
    \A i \in 1..Len(MACHINES[in_surgery]) :
      LET e == MACHINES[in_surgery][i] IN
      /\ in_name = e.name => out_fuzzy = e.name
      /\ \A k \in 1..Len(e.aliases) :
           /\ Lower(in_name) = Lower(e.aliases[k]) => out_fuzzy = e.name
           /\ MentionsOnly(in_surgery, i, Lower(e.aliases[k]), in_name)
                => out_fuzzy = e.name

\* --------------------------------------------------------- claims: parser
Parsed == parse_out /= NotParsed

\* the text is a well-formed intent object, alone or wrapped
WellFormedIntent == raw_form.kind = "intent" /\ raw_form.quote = DQ /\ ~raw_form.comma

\* C11 (as claimed): parse_llm_output returns an LLMOutput for every text
\* and never raises; a text from which no object is obtained gives empty
\* name lists and the explanatory note as reasoning.
C11_ParserTotal ==
  Parsed =>
    /\ parse_out.outcome = "returned"
    /\ (\A k \in 1..Len(candidates(raw_text)) :
          ~json_loads(candidates(raw_text)[k]).ok)
         => /\ parse_out.reasoning = ParseFailedNote
            /\ parse_out.machine_states = NoStates

\* the entities of catalog s that declare the alias a
DeclarersOf(s, a) ==
  {MACHINES[s][i].name : i \in {k \in 1..Len(MACHINES[s]) : a \in Range(MACHINES[s][k].aliases)}}

\* the text is a well-formed intent object in a fenced block whose on-list
\* holds one declared alias and whose off-list is empty
FencedAlias ==
  /\ WellFormedIntent
  /\ Fenced(raw_form.wrap)
  /\ raw_form.off = <<>>
  /\ Len(raw_form.on) = 1
  /\ DeclarersOf(in_surgery, raw_form.on[1]) /= {}

C13_SingleQuotesRepaired ==
  (Parsed /\ raw_form.kind = "intent" /\ raw_form.quote = SQ /\ ~raw_form.comma) =>
    /\ parse_out.reasoning /= ParseFailedNote
    /\ parse_out = parse_llm_output(TextOf([raw_form EXCEPT !.quote = DQ]), in_surgery)

\* ------------------------------------------------------- claims: pipeline
\* the last n items of 1..m, oldest first
LastItems(m, n) == [i \in 1..n |-> m - n + i]

Min(a, b) == IF a < b THEN a ELSE b

NoConsumer == \A w \in Threads : worker[w].state = "new"

\* C14: the queue never holds more than QueueSize items; with no worker
\* started, once the pushes made so far have returned the queue holds the
\* most recent of them, at most QueueSize, in the order they were pushed:
\* after QueueSize + 1 pushes, items 2..QueueSize + 1, item 1 dropped.
C14_DropOldestOnOverflow ==
  /\ Len(queue) <= QueueSize
  /\ NoConsumer /\ producer.pc = "idle" =>
       /\ queue = LastItems(hist.pushed, Min(hist.pushed, QueueSize))
       /\ hist.dropped = 1..(hist.pushed - Len(queue))
       /\ hist.lost = {} /\ hist.raised = {}

C14_Witness ==
  /\ NoConsumer
  /\ producer.pc = "idle"
  /\ hist.pushed = QueueSize + 1
  /\ queue = LastItems(QueueSize + 1, QueueSize)
  /\ hist.dropped = {1}

\* the items a worker has taken from the queue
Taken == Range(hist.inferred) \cup {worker[w].item : w \in Threads}

\* C15: _on_transcription never raises, and the item of a push that has
\* returned is in the queue or has been taken by the worker (or was later
\* dropped as the oldest pending item by another push): it is never lost.
C15_PushedItemNeverLost ==
  /\ hist.raised = {}
  /\ \A k \in Returned : k \in Range(queue) \cup Taken \cup hist.dropped

Alive == {w \in Threads : worker[w].state = "alive"}

\* the threads inside a call of the store
InStore(op) == {t \in Threads : frame[t].pc /= "idle" /\ frame[t].op = op}

\* C16: over any sequence of start(), stop() and pushes, at most one
\* worker thread is alive, so at most one inference is in progress, and
\* every apply_update call is made by that worker, for the one item it holds.
C16_SingleWorker ==
  /\ Cardinality(Alive) <= 1
  /\ Cardinality({w \in Threads : worker[w].pc = "infer"}) <= 1
  /\ Cardinality(InStore("apply_update")) <= 1
  /\ \A t \in InStore("apply_update") :
       /\ t \in Alive
       /\ worker[t].pc = "in_apply_update"
       /\ worker[t].item > 0
       /\ frame[t].req.transcription = Text(worker[t].item)

\* start() has been called twice, and an update is being applied
C16_Witness ==
  /\ hist.starts = 2
  /\ InStore("apply_update") /= {}
  /\ \E w \in Threads : worker[w].pc = "in_apply_update"

\* the step in which an inference raises
InferRaises(w) ==
  /\ worker[w].pc = "infer"
  /\ hist'.failed /= hist.failed

\* C17: when the inference of a dequeued item raises, the worker stays
\* alive and goes on to task_done() and the next test of the loop, the
\* step changes nothing in the store or its file, and no apply_update call
\* is ever made for that item.
C17_InferenceErrorContained ==
  /\ [][\A w \in Threads : InferRaises(w) =>
          /\ worker'[w].state = "alive"
          /\ worker'[w].pc = "task_done"
          /\ UNCHANGED <<storeVars, fsVars, queue>>]_vars
  /\ [](\A k \in hist.failed :
          /\ k \notin Range(hist.applied)
          /\ \A i \in Insts : last_transcription[i] /= Text(k)
          /\ \A t \in Threads : frame[t].op = "apply_update" =>
                                  frame[t].req.transcription /= Text(k))

\* an inference has raised, and an item taken after it has been applied
C17_Witness ==
  \E k \in hist.failed, j \in Range(hist.applied) :
    /\ k < j
    /\ last_transcription[1] = Text(j)

\* items are numbered in the order they are pushed: a sequence of items is
\* in push order when it is strictly increasing
InPushOrder(q) == \A i, j \in 1..Len(q) : i < j => q[i] < q[j]

\* C18: the items handed to inference are pushed items, each at most once,
\* in the order they were pushed; the items missing from them are pending,
\* held by the worker, or were discarded on overflow; the updates are
\* applied in the same order, each for an item whose inference returned.
C18_FifoOrder ==
  /\ Range(hist.inferred) \subseteq 1..hist.pushed
  /\ InPushOrder(hist.inferred)
  /\ InPushOrder(queue)
  /\ \A k \in Range(queue), j \in Taken \ {0} : j < k
  /\ \A k \in Returned :
       k \in Range(queue) \cup Taken \cup hist.dropped \cup hist.lost
  /\ InPushOrder(hist.applied)
  /\ Range(hist.applied) = Range(hist.inferred) \ (hist.failed \cup
        {worker[w].item : w \in {u \in Threads : worker[u].pc = "infer"}})
  /\ \A i \in Insts :
       last_transcription[i] /= "" => last_transcription[i] \in {Text(k) : k \in Range(hist.applied)}

\* an item was discarded on overflow, and a later item has been applied
\* after an earlier one
C18_Witness ==
  /\ hist.dropped /= {}
  /\ Len(hist.applied) >= 2
  /\ last_transcription[1] = Text(hist.applied[Len(hist.applied)])

\* the step in which a worker leaves its loop
Exits(w) == worker[w].state = "alive" /\ worker'[w].state = "exited"

\* C19 as stated: when the worker leaves its loop, every item that was
\* pending when stop() was called has been handed to inference.
C19_PendingAllProcessed ==
  [][\A w \in Threads : Exits(w) => hist.at_stop \subseteq Range(hist.inferred)]_vars

\* C19, amended: a worker leaves its loop only with the stop flag set and the queue
\* empty, holding no item, every item that was pending when stop() was
\* called having been handed to inference or discarded on overflow by a
\* later push; once stopped it stays stopped; and when every call the worker
\* makes returns, after stop() the worker is eventually not alive.
C19_StopDrains ==
  /\ [][\A w \in Threads : Exits(w) =>
          /\ stop_event
          /\ queue = <<>>
          /\ worker[w].item = 0
          /\ hist.at_stop \subseteq Range(hist.inferred) \cup hist.dropped]_vars
  /\ [](\A w \in Threads : worker[w].state = "exited" => stop_event)
  /\ [][stop_event => stop_event']_vars
  /\ (stop_event ~> Alive = {})

\* stop() was called with items pending and the worker busy; the worker has
\* processed them and exited
C19_Witness ==
  /\ stop_event
  /\ hist.at_stop /= {}
  /\ hist.at_stop \subseteq Range(hist.inferred)
  /\ \E w \in Threads : worker[w].state = "exited"
  /\ queue = <<>>

\* ------------------------------------------------------ claims: websocket
Finished == {b \in Broadcasts : bcast[b].pc = "done"}

\* C20: a broadcast that completes has tried every observer that was
\* connected when it began, delivered to each one whose send did not fail,
\* and removes from the observer set exactly the observers whose send
\* failed in it; none of them is in the set afterwards, and the sending
\* loop is left in no other way than by completing the broadcast.
C20_FailedSendContained ==
  /\ [](\A b \in Finished :
          /\ bcast[b].delivered \cup bcast[b].failed = bcast[b].at_start
          /\ bcast[b].delivered \cap bcast[b].failed = {}
          /\ bcast[b].removed \subseteq bcast[b].failed
          /\ bcast[b].failed \cap clients = {})
  /\ [][\A b \in Broadcasts :
          bcast[b].pc = "sending" /\ bcast'[b].pc /= "sending" =>
            /\ bcast'[b].pc = "done"
            /\ clients' = clients \ bcast[b].failed]_vars

\* a broadcast to three observers has completed: one send failed and that
\* observer was removed, the other two received the payload and remain
C20_Witness ==
  \E b \in Finished :
    /\ Cardinality(bcast[b].at_start) = 3
    /\ Cardinality(bcast[b].failed) = 1
    /\ bcast[b].removed = bcast[b].failed
    /\ Cardinality(bcast[b].delivered) = 2
    /\ clients = bcast[b].delivered


\* C21: every observer is sent the snapshots in the order in which the
\* updates were applied: none is sent an older snapshot after a newer one,
\* also while several broadcast coroutines are in flight on the loop.
C21_SnapshotsInOrder ==
  \A o \in Observers :
    \A i, j \in 1..Len(received[o]) : i < j => received[o][i] < received[o][j]


\* ----------------------------------------------------- claims: segmenter
Emissions == seg_hist.emitted

\* the part of an emitted utterance that follows its pre-roll
UttPart(e) == SubSeq(e.audio, Len(e.pre) + 1, Len(e.audio))

\* C22: whatever frames and poll timeouts are fed, every input frame is in
\* the part after the pre-roll of at most one emitted utterance, these
\* parts put end to end are a subsequence of the input in its order, and a
\* speech burst (one entry IDLE -> SPEAKING) gives at most one emission.
C22_FramesEmittedOnce ==
  /\ \A i \in 1..Len(Emissions) :
       /\ \A a \in 1..Len(UttPart(Emissions[i])) :
            UttPart(Emissions[i])[a] \in 1..seg_hist.fed
       /\ \A a, b \in 1..Len(UttPart(Emissions[i])) :
            a < b => UttPart(Emissions[i])[a] < UttPart(Emissions[i])[b]
       /\ Emissions[i].burst \in 1..seg_hist.bursts
  /\ \A i, j \in 1..Len(Emissions) :
       i < j =>
         /\ Emissions[i].burst < Emissions[j].burst
         /\ \A a \in 1..Len(UttPart(Emissions[i])), b \in 1..Len(UttPart(Emissions[j])) :
              UttPart(Emissions[i])[a] < UttPart(Emissions[j])[b]

\* two bursts were emitted and delivered, one of them cut to the hard cap
C22_Witness ==
  /\ seg.th = ShortThresholds
  /\ Len(Emissions) >= 2
  /\ \E i, j \in 1..Len(Emissions) :
       /\ i # j
       /\ Emissions[i].delivered
       /\ Len(Emissions[i].audio) < Len(Emissions[i].pre) + Len(Emissions[i].utt)
       /\ Emissions[j].delivered
       /\ Len(UttPart(Emissions[j])) > 0

Within(x, y, d) == x - y <= d /\ y - x <= d

\* C23: from IDLE with an empty pre-roll, 0.05 s of silent frames, 0.5 s of
\* frames at RMS 0.05 and 1.0 s of silent frames give exactly one delivered
\* utterance; its length is the pre-roll held at the onset (with or without
\* the onset frame) plus the 0.5 s voiced plus 0.75 s of silence, within
\* one frame; the rest of the silence gives no second utterance.
C23_OneUtterance ==
  /\ Len(Emissions) <= 1
  /\ feed = <<>> =>
       /\ Len(Emissions) = 1
       /\ Emissions[1].delivered
       /\ seg.state = "IDLE"
       /\ \A held \in {Len(Emissions[1].pre), Len(Emissions[1].pre) - 1} :
            Within(Len(Emissions[1].audio) * BLOCK_SIZE,
                   held * BLOCK_SIZE + Frames(50) * BLOCK_SIZE
                                     + (SILENCE_DURATION_SEC * SAMPLE_RATE) \div 100,
                   BLOCK_SIZE)

\* the whole utterance was fed and one utterance delivered
C23_Witness ==
  /\ seg.th = Thresholds(SAMPLE_RATE)
  /\ seg_hist.fed > 0
  /\ feed = <<>>
  /\ Len(Emissions) = 1
  /\ Emissions[1].delivered

\* C24: after every emission (the endpoint reached by silent frames or by
\* poll timeouts, or the hard cap; delivered or discarded) the pre-roll
\* buffer is empty.
C24_PreRollEmptyAfterEmission ==
  [][Len(seg_hist'.emitted) > Len(seg_hist.emitted) => seg'.pre_roll = <<>>]_vars

\* C25: in SPEAKING the frame that brings the utterance buffer to the hard
\* cap is followed at once by an emission and IDLE with empty buffers, and
\* no utterance handed to the callback, pre-roll included, is longer than
\* the hard cap.
C25_HardCap ==
  /\ [][/\ seg.state = "SPEAKING"
        /\ seg_hist'.fed = seg_hist.fed + 1
        /\ (Len(seg.speech_buf) + 1) * BLOCK_SIZE >= seg.th.max_speech_samples
        => /\ Len(seg_hist'.emitted) = Len(seg_hist.emitted) + 1
           /\ seg'.state = "IDLE"
           /\ seg'.speech_buf = <<>>
           /\ seg'.pre_roll = <<>>
           /\ seg'.silence_frame_count = 0]_vars
  /\ [](\A i \in 1..Len(Emissions) :
          Emissions[i].delivered =>
            Len(Emissions[i].audio) * BLOCK_SIZE <= seg.th.max_speech_samples)

\* the hard cap emitted an utterance whose buffers together exceeded it
C25_Witness ==
  /\ seg.th = ShortThresholds
  /\ seg.state = "IDLE"
  /\ \E i \in 1..Len(Emissions) :
       /\ Emissions[i].delivered
       /\ Len(Emissions[i].utt) * BLOCK_SIZE >= seg.th.max_speech_samples
       /\ Len(Emissions[i].pre) > 0
       /\ Len(Emissions[i].audio) * BLOCK_SIZE = seg.th.max_speech_samples

\* C26: a poll timeout in TRAILING adds one to the silence counter and, at
\* the required count, emits and leaves the segmenter as a silent frame
\* would (IDLE, counter 0, both buffers empty) without appending samples; in
\* IDLE and SPEAKING it changes nothing; so an utterance in TRAILING is
\* emitted in the end when the producer has stopped.
C26_PollTimeout ==
  /\ [][seg_hist'.fed = seg_hist.fed /\ seg.state = "TRAILING" =>
          IF seg.silence_frame_count + 1 >= seg.th.silence_frames_needed
          THEN /\ Len(seg_hist'.emitted) = Len(seg_hist.emitted) + 1
               /\ seg'.state = "IDLE"
               /\ seg'.silence_frame_count = 0
               /\ seg'.speech_buf = <<>>
               /\ seg'.pre_roll = <<>>
               /\ seg_hist'.emitted[Len(seg_hist'.emitted)].utt = seg.speech_buf
          ELSE /\ seg' = [seg EXCEPT !.silence_frame_count = @ + 1]
               /\ seg_hist'.emitted = seg_hist.emitted]_vars
  /\ [][seg_hist'.fed = seg_hist.fed /\ seg.state # "TRAILING" =>
          seg' = seg /\ seg_hist' = seg_hist]_vars
  /\ \A n \in 0..MaxFrames :
       (seg.state = "TRAILING" /\ seg_hist.fed = MaxFrames /\ Len(Emissions) = n)
         ~> (Len(Emissions) = n + 1)

\* C27: when the callback raises, the worker goes on: after the failed
\* emission the segmenter is IDLE with an empty utterance buffer and counter
\* 0, as after a successful one, and later bursts are still emitted.
C27_CallbackErrorContained ==
  /\ [](seg.running)
  /\ [][/\ Len(seg_hist'.emitted) = Len(seg_hist.emitted) + 1
        /\ seg_hist'.emitted[Len(seg_hist'.emitted)].raised
        => /\ seg'.state = "IDLE"
           /\ seg'.speech_buf = <<>>
           /\ seg'.silence_frame_count = 0
           /\ seg'.running]_vars

\* the callback raised for one burst and a later burst was delivered
C27_Witness ==
  /\ seg.th = ShortThresholds
  /\ \E i, j \in 1..Len(Emissions) :
       /\ i < j
       /\ Emissions[i].raised
       /\ Emissions[j].delivered
       /\ ~Emissions[j].raised


\* ---------------------------------------------------- claims: push_block
\* the frames that the blocks pushed before the k-th one gave
RECURSIVE FramesBefore(_)
FramesBefore(k) ==
  IF k <= 1 THEN 0 ELSE FramesBefore(k - 1) + pushed[k - 1] \div BLOCK_SIZE

\* C28: a block of L samples gives the queue exactly floor(L / 320) frames
\* of exactly 320 samples each, in the order of the block; the last
\* L mod 320 samples are dropped and not carried into the next block.
C28_PushBlockFrames ==
  /\ \A n \in 1..Len(audio_queue) :
       audio_queue[n].hi - audio_queue[n].lo = BLOCK_SIZE
  /\ Len(audio_queue) = FramesBefore(Len(pushed) + 1)
  /\ \A k \in 1..Len(pushed) :
       \A m \in 1..(pushed[k] \div BLOCK_SIZE) :
         audio_queue[FramesBefore(k) + m] =
           [block |-> k, lo |-> (m - 1) * BLOCK_SIZE, hi |-> m * BLOCK_SIZE]

\* two blocks were pushed, the first of two frames and a half
C28_Witness ==
  /\ Len(pushed) = 2
  /\ pushed[1] % BLOCK_SIZE > 0
  /\ pushed[1] \div BLOCK_SIZE = 2
  /\ pushed[2] >= BLOCK_SIZE
  /\ Len(audio_queue) >= 3


\* ------------------------------------------------------ claims: sessions
Running  == {q \in Pipelines : pipelines[q] = "running"}
InFlight == {r \in Reqs : reqs[r].pc \notin {"new", "done"}}

ContainsNoSession(text) == text \in {MsgNoSession, MsgIdle}

\* C30: GET /api/state with no active session answers 400 with a detail
\* containing "No active pipeline session"; with an active session, 200.
C30_StateNeedsSession ==
  \A r \in Reqs :
    reqs[r].kind = "state" /\ reqs[r].pc = "done" =>
      IF reqs[r].had = 0
      THEN reqs[r].status = 400 /\ ContainsNoSession(reqs[r].detail)
      ELSE reqs[r].status = 200


\* ---- the endpoint detector's hysteresis ----

\* a step of the worker that took a frame from the queue
FrameStep == seg_hist'.fed = seg_hist.fed + 1

\* a step that called _emit_utterance
EmitStep == Len(seg_hist'.emitted) = Len(seg_hist.emitted) + 1

\* the frame taken brings the utterance buffer to the hard cap
AtHardCap == (Len(seg.speech_buf) + 1) * BLOCK_SIZE >= seg.th.max_speech_samples

SpeakingStays(unless_cap) ==
  (seg.state = "SPEAKING" /\ FrameStep /\ seg_hist'.rms >= SILENCE_RMS_THRESHOLD
     /\ ~(unless_cap /\ AtHardCap))
    => seg'.state = "SPEAKING" /\ seg'.silence_frame_count = 0

TrailingEntry ==
  (seg.state = "SPEAKING" /\ seg'.state = "TRAILING")
    => FrameStep /\ seg_hist'.rms < SILENCE_RMS_THRESHOLD /\ seg'.silence_frame_count = 1

TrailingReturn ==
  (seg.state = "TRAILING" /\ FrameStep /\ seg_hist'.rms >= SPEECH_RMS_THRESHOLD)
    => seg'.state = "SPEAKING" /\ seg'.silence_frame_count = 0

EndpointAfterSilence ==
  (seg.state = "TRAILING" /\ EmitStep)
    => /\ seg_hist.trail + 1 = seg.th.silence_frames_needed
       /\ FrameStep => seg_hist'.rms < SPEECH_RMS_THRESHOLD

\* C31 as stated: in SPEAKING every frame at or above the silence threshold
\* keeps SPEAKING; TRAILING is entered only on a frame below it, with the
\* counter 1; a frame at or above the speech threshold takes TRAILING back
\* to SPEAKING with the counter 0; an endpoint emission comes only after the
\* required number of counted frames or timeouts since TRAILING was entered
C31_Hysteresis_AsStated ==
  [][SpeakingStays(FALSE) /\ TrailingEntry /\ TrailingReturn /\ EndpointAfterSilence]_vars

\* C31 amended: the same, except that in SPEAKING the frame that brings the
\* utterance buffer to the hard cap ends the utterance (emission, IDLE)
\* whatever its level
C31_Hysteresis ==
  /\ [][SpeakingStays(TRUE) /\ TrailingEntry /\ TrailingReturn /\ EndpointAfterSilence]_vars
  /\ [][(seg.state = "SPEAKING" /\ FrameStep /\ AtHardCap)
          => EmitStep /\ seg'.state = "IDLE"]_vars
  /\ [](seg.state = "TRAILING" => seg.silence_frame_count = seg_hist.trail)

\* an utterance that went from TRAILING back to SPEAKING and was later
\* ended by silence, below the hard cap
C31_Witness ==
  /\ seg.state = "IDLE"
  /\ seg_hist.resumed
  /\ seg_hist.emitted # <<>>
  /\ Len(seg_hist.emitted[Len(seg_hist.emitted)].utt) * BLOCK_SIZE < seg.th.max_speech_samples


\* ---- the frame that starts an utterance ----

\* how often frame f occurs in the audio
Occurrences(audio, f) == Cardinality({i \in 1..Len(audio) : audio[i] = f})

\* the emission is the pre-roll, ending with the frame that started the
\* utterance, followed by the utterance buffer, starting with that frame
TriggerTwice(e) ==
  /\ e.pre # <<>>
  /\ e.utt # <<>>
  /\ e.pre[Len(e.pre)] = e.utt[1]
  /\ e.audio = SubSeq(e.pre \o e.utt, 1, Len(e.audio))
  /\ Len(e.audio) > Len(e.pre) => Occurrences(e.audio, e.utt[1]) = 2

\* C37: the frame that takes IDLE to SPEAKING is appended to the pre-roll and
\* is the first frame of the utterance buffer; the pre-roll is untouched
\* while SPEAKING or TRAILING; every delivered utterance is the pre-roll
\* followed by the utterance buffer, with the triggering frame twice unless
\* the hard cap cuts it off
C37_TriggerFrameTwice ==
  /\ [][(seg.state = "IDLE" /\ seg'.state = "SPEAKING")
          => /\ FrameStep
             /\ seg'.pre_roll # <<>>
             /\ seg'.pre_roll[Len(seg'.pre_roll)] = seg_hist'.fed
             /\ seg'.speech_buf = <<seg_hist'.fed>>]_vars
  /\ [][(seg.state # "IDLE" /\ seg'.state # "IDLE") => seg'.pre_roll = seg.pre_roll]_vars
  /\ [](\A i \in 1..Len(seg_hist.emitted) :
          seg_hist.emitted[i].delivered => TriggerTwice(seg_hist.emitted[i]))

\* a delivered utterance with older frames in its pre-roll and the
\* triggering frame twice in its audio
C37_Witness ==
  \E i \in 1..Len(seg_hist.emitted) :
    /\ seg_hist.emitted[i].delivered
    /\ Len(seg_hist.emitted[i].pre) >= 2
    /\ Occurrences(seg_hist.emitted[i].audio, seg_hist.emitted[i].utt[1]) = 2

\* ---- the shortest utterances of the default parameters ----

LastEmission(h) == h.emitted[Len(h.emitted)]

\* C38: with the default parameters (37 silence frames, 4800 samples at
\* least) an emission whose silence count was reached by frames alone is
\* long enough and is delivered; an emission that is dropped as too short
\* had a poll timeout in its silence count
C38_FramesOnlyDelivered ==
  /\ [](/\ seg.th.silence_frames_needed = 37
        /\ seg.th.min_speech_samples = 4800)
  /\ [][(EmitStep /\ ~LastEmission(seg_hist').delivered)
          => /\ seg.state = "TRAILING"
             /\ ~FrameStep \/ seg_hist.polled]_vars
  /\ [][(EmitStep /\ FrameStep /\ ~seg_hist.polled)
          => /\ LastEmission(seg_hist').delivered
             /\ Len(LastEmission(seg_hist').audio) * BLOCK_SIZE >= 4800]_vars

\* the shortest utterance ended by frames alone: the onset frame and 37
\* quiet frames, no poll counted, delivered
C38_Witness ==
  /\ seg_hist.emitted # <<>>
  /\ ~seg_hist.polled
  /\ LastEmission(seg_hist).delivered
  /\ Len(LastEmission(seg_hist).utt) = 38

\* ---- malformed fields of a parsed object ----

\* the elements of a list value that are strings
StringItems(v) == SelectSeq(ListOrEmpty(v).items, LAMBDA e : e.t = "str")

\* the names of list value v resolved in catalog s, the others dropped
ResolvedNames(s, v) == _normalise_machine_names(s, StringItems(v), <<>>).names

\* the state-change field of the parsed object, {} when missing or no object
StatesField(parsed) == DictOrEmpty(dict_get(parsed, K_machine_states, EmptyDict))

\* C32 (as claimed): for a text that parses to an object, a missing or
\* non-object state-change field, a missing or non-list on/off value and
\* non-string elements in the lists are treated as empty or skipped:
\* parse_llm_output raises nothing and returns the resolved ids of the
\* remaining valid names.
C32_MalformedFieldsTolerated ==
  (Parsed /\ _try_parse(raw_text).t = "obj") =>
    /\ parse_out.outcome = "returned"
    /\ parse_out.machine_states =
         MachineStates(
           ResolvedNames(in_surgery, dict_get(StatesField(_try_parse(raw_text)), <<"0">>, EmptyList)),
           ResolvedNames(in_surgery, dict_get(StatesField(_try_parse(raw_text)), <<"1">>, EmptyList)))

\* ---- the first brace-delimited block ----

\* the number of characters c among the first n of the text
CountOf(txt, c, n) == Cardinality({i \in 1..n : txt[i] = c})

\* depth of nesting after the first n characters
DepthAt(txt, n) == CountOf(txt, "{", n) - CountOf(txt, "}", n)

\* the braces of the text match: never more closed than opened, all closed
Balanced(txt) ==
  /\ \A n \in 1..Len(txt) : DepthAt(txt, n) >= 0
  /\ DepthAt(txt, Len(txt)) = 0

\* txt[i..j] is a block: an opening brace and the brace that closes it
IsBlock(txt, i, j) ==
  /\ i < j
  /\ txt[i] = "{"
  /\ txt[j] = "}"
  /\ Balanced(SubSeq(txt, i, j))
  /\ \A k \in i..(j - 1) : ~Balanced(SubSeq(txt, i, k))

\* position i is outside every brace opened before it: each of them is
\* closed before i
TopLevelAt(txt, i) ==
  \A k \in 1..(i - 1) : txt[k] = "{" => \E j \in (k + 1)..(i - 1) : IsBlock(txt, k, j)

\* the top-level blocks of the text
Blocks(txt) ==
  {p \in (1..Len(txt)) \X (1..Len(txt)) : IsBlock(txt, p[1], p[2]) /\ TopLevelAt(txt, p[1])}

\* the top-level block that starts first
FirstBlock(txt) ==
  LET p == CHOOSE p \in Blocks(txt) : \A q \in Blocks(txt) : p[1] <= q[1]
  IN SubSeq(txt, p[1], p[2])

IsSubstring(sub, txt) ==
  \E i \in 1..(Len(txt) - Len(sub) + 1) : SubSeq(txt, i, i + Len(sub) - 1) = sub

\* the result is nothing or a balanced {...} substring of the text
ExtractedShape ==
  extract_out /= None =>
    /\ extract_out /= <<>>
    /\ IsSubstring(extract_out, raw_text)
    /\ extract_out[1] = "{"
    /\ extract_out[Len(extract_out)] = "}"
    /\ Balanced(extract_out)

\* C33 (as claimed): _extract_first_json_object returns nothing or a
\* substring that starts with an opening brace, ends with a closing brace
\* and has balanced braces; when the text contains a balanced block it
\* returns the first top-level one, also after unmatched closing braces, and
\* it returns nothing only when the text has no such block.
C33_FirstBalancedBlock ==
  extract_out /= NotExtracted =>
    /\ ExtractedShape
    /\ Blocks(raw_text) /= {} => extract_out = FirstBlock(raw_text)
    /\ extract_out = None => Blocks(raw_text) = {}

\* ---- reset ----

\* the snapshot of catalog s with every entity off and no texts
IsAllOff(snap, s) ==
  /\ snap.surgery = s
  /\ OnList(snap) = <<>>
  /\ OffList(snap) = MachineKeys(s)
  /\ snap.transcription = ""
  /\ snap.reasoning = ""

\* thread t is in reset, past the statements under the lock
InReset(t) == frame[t].op = "reset" /\ HasSnapshot(t)

NoMutationInProgress == \A t \in Threads : frame[t].op \notin {"apply_update", "reset", "init"}

FileSnapshot == inode[path.file][1].snap

\* C39: for a single StateManager every write of the file happens while the
\* store's lock is held; whenever no apply_update or reset is in progress
\* and no write has failed, the lists and texts in the file are those of
\* get_snapshot(); the file never goes back to an older snapshot.
C39_FileFollowsStore ==
  /\ [](\A t \in Threads :
          frame[t].pc \in WritePcs => lock[frame[t].self] = t)
  /\ []((NoMutationInProgress /\ ~write_failed) =>
          /\ IsComplete(inode[path.file])
          /\ FileSnapshot.machine_states =
               _build_snapshot(surgery[1], machines[1], "", "", 0).machine_states
          /\ FileSnapshot.transcription = last_transcription[1]
          /\ FileSnapshot.reasoning = last_reasoning[1])
  /\ [][(IsComplete(inode[path.file]) /\ path'.file /= 0 /\ IsComplete(inode'[path'.file]))
          => inode'[path'.file][1].snap.timestamp >= FileSnapshot.timestamp]_vars

\* two updates have been applied and persisted, none in progress, no write
\* failed: the file holds the second
C39_Witness ==
  /\ NoMutationInProgress
  /\ ~write_failed
  /\ \A t \in Threads : done[t] = [op |-> "apply_update", outcome |-> "returned"]
  /\ OnList(FileSnapshot) /= <<>>
  /\ FileSnapshot.timestamp = clock

\* ---- change_surgery beside the worker ----

\* C34 (as claimed): change_surgery(S) puts a fresh store for S, every entity
\* off, in the place of the pipeline's store and switches the inference to S
\* without loading a model again; every item the worker processes takes its
\* snapshot from, is inferred for and is applied to the store of one and the
\* same surgery, also when change_surgery runs meanwhile.
C34_OneSurgeryPerItem ==
  /\ [][orp'.stores # orp.stores /\ Len(orp'.stores) > Len(orp.stores)
          => /\ orp'.stores = Append(orp.stores, [surgery |-> orp.changer.to,
                                                machines |-> AllOff(orp.changer.to),
                                                callbacks |-> <<>>])
             /\ orp'.state_manager = Len(orp'.stores)]_vars
  /\ [](orp.model_loads = 1)
  /\ []((orp.changer.pc = "idle" /\ orp.changes > 0)
          => /\ orp.llm_surgery = orp.surgery
             /\ orp.prompt_surgery = orp.surgery
             /\ orp.stores[orp.state_manager].surgery = orp.surgery)
  /\ [](\A k \in 1..Len(orp.items) :
          /\ orp.items[k].snap = orp.items[k].applied
          /\ orp.items[k].prompt = orp.items[k].applied
          /\ orp.items[k].parse = orp.items[k].applied)

\* the update of item k was applied to a store made by change_surgery
OnNewStore(k) == orp.items[k].store > 1

\* the items whose callbacks were called
Notified == {orp.notified[n].item : n \in 1..Len(orp.notified)}

\* C35 (as claimed): the store made by change_surgery has no subscriber, and
\* no callback of the previous store is called for an update applied after
\* change_surgery has returned.
C35_NoCallbackAfterChange ==
  /\ (\A i \in 2..Len(orp.stores) : orp.stores[i].callbacks = <<>>)
  /\ (\A k \in 1..Len(orp.items) : orp.items[k].after_change => k \notin Notified)

\* C35 amended: the store made by change_surgery has no subscriber and no
\* callback is called for an update applied to it; the callbacks of the
\* first store are called for every update applied to that store, also for
\* one that the worker applies to it after change_surgery has returned.
C35_NoCallbackOnNewStore ==
  /\ (\A i \in 2..Len(orp.stores) : orp.stores[i].callbacks = <<>>)
  /\ (\A k \in 1..Len(orp.items) : OnNewStore(k) => k \notin Notified)
  /\ (\A k \in 1..Len(orp.items) :
          (~OnNewStore(k) /\ orp.stores[1].callbacks # <<>>) => k \in Notified)

\* the bridge is registered on the first store; one update was applied to
\* it and broadcast, a later one to the store made by change_surgery, which
\* has a machine on, and was not
C35_Witness ==
  /\ orp.stores[1].callbacks = <<Bridge>>
  /\ Len(orp.items) = 2
  /\ ~OnNewStore(1) /\ 1 \in Notified
  /\ OnNewStore(2) /\ 2 \notin Notified
  /\ \E n \in DOMAIN orp.stores[orp.items[2].store].machines :
       orp.stores[orp.items[2].store].machines[n]

\* ---- connecting observers ----

\* observer o has connected and no send to it has failed
StaysConnected(o) ==
  /\ conn[o] = "connected"
  /\ \A b \in Broadcasts : o \notin bcast[b].failed

\* the newest snapshot among those handed to an observer
Newest(rcv) == CHOOSE k \in Range(rcv) : \A j \in Range(rcv) : j <= k

\* the connect of o raced with at most one update: the pipeline was
\* quiescent when its handler started and one update was applied since
OneUpdateSince(o) ==
  /\ link.calm[o]
  /\ link.version <= link.at_accept[o] + 1

====
